---- MODULE Spec2Model ----
(***************************************************************************)
(* Position evaluation orchestrator of centichess: the worker-pool         *)
(* scheduler MoveEvaluator.batchEvaluateMoves / cancelActiveAnalysis and   *)
(* the Engine handle (evaluate, abort, handleError,                        *)
(* fallbackToAlternativeEngine, interpret), on the browser's event loop:   *)
(* one task at a time, every promise reaction (microtask) drained before   *)
(* the next task, and before the next listener of an event in dispatch.    *)
(***************************************************************************)
EXTENDS Integers, Sequences, FiniteSets, TLC

\* ---------------------------------------------------------------- bounds
MaxJobs == 2        \* longest move list handed to batchEvaluateMoves
MaxHW == 1          \* largest detected navigator.hardwareConcurrency
MaxBatches == 3     \* batch closures the state has room for
MaxErrors == 1      \* worker error events per behaviour
MaxCancels == 1     \* calls of cancelActiveAnalysis per behaviour
MaxInfo == 1        \* search-progress messages a worker emits per search
MaxFairJobs == 1    \* longest move list under the fair specification
MaxSchedJobs == 3   \* longest move list when the pool is smaller than the list
MaxSchedHW == 2     \* largest hardwareConcurrency for such a list
MaxLog == 2         \* messages of one search handed to interpret
MaxDepth == 2       \* deepest search depth a message reports
MaxPV == 2          \* highest multi-PV rank a message reports
MaxGameMoves == 3   \* longest game handed to the labelling of analyzeGame
MaxPlies == 3       \* longest game of which every evaluation is tried
MaxSideMoves == 82  \* moves a side makes in the longest game scored
MaxCentipawns == 10002  \* largest centipawn score of a line
MaxMate == 3        \* longest forced mate of a line
MaxCplMoves == 3     \* moves of one side whose centipawn loss is averaged
MaxAttempts == 3     \* moves the user tries on one mistake

\* ------------------------------------------------------ program constants
DefaultMaxWorkers == 8   \* navigator.hardwareConcurrency || 8
GiveUpFallen == 2        \* the safety timeout retries while fallen < 2
FallbackStop == 1        \* fallbackToAlternativeEngine returns when fallen > 1

Primary == "stockfish-17.1-lite"
Lite16 == "stockfish-16-lite"
Basic11 == "stockfish-11"
Profiles == {Primary, Lite16, Basic11}

VARIABLES
    cancelRequested,  \* MoveEvaluator.cancelRequested
    workerPool,       \* MoveEvaluator.workerPool: the batch whose pool it is, 0 for []
    available,        \* engine profiles for which new Worker(path) does not throw
    batches,          \* per call of batchEvaluateMoves: its closure and its promise
    pool,             \* per batch: the Engine handles of its workerPool
    timers,           \* armed setTimeout callbacks, in firing order
    microtasks,       \* pending promise reactions, in order
    dispatch,         \* listeners still to be called for the event in dispatch
    nErrors,          \* worker error events so far
    nCancels,         \* cancelActiveAnalysis calls so far
    batchLimit,       \* how many batches the page starts
    jobLimit,         \* longest move list the page hands over
    hwLimit,          \* largest navigator.hardwareConcurrency of the browser
    call              \* a function called outside a batch: arguments and result

vars == <<cancelRequested, workerPool, available, batches, pool, timers,
          microtasks, dispatch, nErrors, nCancels, batchLimit, jobLimit,
          hwLimit, call>>

\* the state of the scheduler and its engines
sched == <<cancelRequested, workerPool, available, batches, pool, timers,
           microtasks, dispatch, nErrors, nCancels, batchLimit, jobLimit,
           hwLimit>>

\* ------------------------------------------------------------- helpers
Min(a, b) == IF a < b THEN a ELSE b

NoPid == <<0, 0, 0>>

\* promise created by the evaluate() call for job j of batch b at fallen = f
Pid(b, j, f) == <<b, j, f>>

\* Math.round((completedMoves / history.length) * 100)
Percent(c, n) == (200 * c + n) \div (2 * n)

\* the game starts from the initial position: the position after move i
\* (1-based) has Black to move exactly when i is odd
BlackToMove(i) == i % 2 = 1

\* history[i]: the i-th input move
HistoryMove(i) == <<"move", i>>

\* ---------------------------------------------------- engine messages
Bestmove == [kind |-> "bestmove", depth |-> 0, multipv |-> 0, pv |-> FALSE,
             score |-> 0, type |-> "cp"]

\* "info depth d multipv k score <type> s pv ..." as the worker prints it
Info(d, k, s, t, hasPv) ==
    [kind |-> "info", depth |-> d, multipv |-> k, pv |-> hasPv,
     score |-> s, type |-> t]

\* messages a worker of the scheduler's pool emits during a search
BatchInfos == {Info(1, 1, 30, "cp", TRUE)}

\* message.startsWith("bestmove") || message.includes("depth 0")
EndsSearch(m) == m.kind = "bestmove" \/ (m.kind = "info" /\ m.depth = 0)

RECURSIVE MaxDepthOf(_)
MaxDepthOf(outputs) ==
    IF outputs = <<>> THEN 0
    ELSE LET r == MaxDepthOf(Tail(outputs))
         IN IF Head(outputs).depth > r THEN Head(outputs).depth ELSE r

\* a filter that accepts a line of any depth
SkipWhateverDepth(o, maxDepth, lines) ==
    \/ o.multipv = 0
    \/ o.depth = 0
    \/ ~o.pv
    \/ \E k \in 1..Len(lines) : lines[k].id = o.multipv

\* if (!id || !depth || !uciMove || depth !== maxDepth
\*     || lines.some(line => line.id == id)) continue;
Skip(o, maxDepth, lines) ==
    \/ o.multipv = 0
    \/ o.depth = 0
    \/ ~o.pv
    \/ o.depth # maxDepth
    \/ \E k \in 1..Len(lines) : lines[k].id = o.multipv

\* a score that is inverted for centipawns only
ScoreInvertedForCp(negamaxScore, type, black) ==
    IF black /\ type = "cp" THEN 0 - negamaxScore ELSE negamaxScore

\* const score = fen.includes(" b ") ? -negamaxScore : negamaxScore;
Score(negamaxScore, type, black) ==
    IF black THEN 0 - negamaxScore ELSE negamaxScore

RECURSIVE InterpretLoop(_, _, _, _)
InterpretLoop(outputs, maxDepth, black, lines) ==
    IF outputs = <<>> THEN lines
    ELSE LET o == Head(outputs)
             line == [id |-> o.multipv, depth |-> o.depth,
                      score |-> Score(o.score, o.type, black),
                      type |-> o.type]
         IN InterpretLoop(Tail(outputs), maxDepth, black,
                          IF Skip(o, maxDepth, lines) THEN lines
                          ELSE Append(lines, line))

\* Engine.interpret(uciOutputLines, fen, targetDepth); uciOutputLines is the
\* handler's message list, newest message first
interpret(uciOutputLines, black) ==
    LET outputs == SelectSeq(uciOutputLines, LAMBDA m : m.kind = "info")
    IN InterpretLoop(outputs, MaxDepthOf(outputs), black, <<>>)

\* ------------------------------------------------------- Engine handle
\* worker: "null", "live" (a running Worker) or "dead" (a Worker object
\* on which terminate() was called: it takes messages and emits nothing)
NewWorker(e, profile) ==
    [e EXCEPT !.engine = profile, !.worker = "live", !.going = 0,
              !.emitted = 0, !.stops = 0, !.listeners = <<>>]

\* new Engine({ engineType }), once new Worker(path) has succeeded
NewEngine(profile) ==
    [engine |-> profile, worker |-> "live", going |-> 0, emitted |-> 0,
     stops |-> 0, listeners |-> <<>>, busy |-> FALSE,
     currentResolve |-> NoPid, currentReject |-> NoPid]

\* worker.terminate() on the Worker object the handle holds
TerminateWorker(e) ==
    IF e.worker = "null" THEN e ELSE [e EXCEPT !.worker = "dead", !.going = 0]

\* Engine.fallbackToAlternativeEngine(fallen)
fallbackToAlternativeEngine(e, fallen, avail) ==
    IF fallen > FallbackStop THEN e
    ELSE LET t == TerminateWorker(e)
         IN IF Lite16 \in avail THEN NewWorker(t, Lite16)
            ELSE IF fallen < 1
                 THEN IF Basic11 \in avail THEN NewWorker(t, Basic11)
                      ELSE [t EXCEPT !.engine = Basic11, !.worker = "null",
                                     !.listeners = <<>>]
                 ELSE [t EXCEPT !.engine = Lite16, !.worker = "null",
                                !.listeners = <<>>]

\* abort() that forgets the in-flight promise instead of resolving it
abortLeavesPending(e) ==
    IF e.worker = "null"
    THEN [e |-> e, threw |-> TRUE, resolved |-> NoPid]
    ELSE [e |-> [e EXCEPT !.stops = 1,
                          !.currentResolve = NoPid,
                          !.currentReject =
                              IF e.currentResolve # NoPid THEN NoPid ELSE @,
                          !.busy = FALSE],
          threw |-> FALSE,
          resolved |-> NoPid]

\* abort() that resolves the in-flight promise but leaves the handle busy
abortStaysBusy(e) ==
    IF e.worker = "null"
    THEN [e |-> e, threw |-> TRUE, resolved |-> NoPid]
    ELSE [e |-> [e EXCEPT !.stops = 1,
                          !.currentResolve = NoPid,
                          !.currentReject =
                              IF e.currentResolve # NoPid THEN NoPid ELSE @],
          threw |-> FALSE,
          resolved |-> e.currentResolve]

\* abort() that flips the busy flag instead of clearing it
abortTogglesBusy(e) ==
    IF e.worker = "null"
    THEN [e |-> e, threw |-> TRUE, resolved |-> NoPid]
    ELSE [e |-> [e EXCEPT !.stops = 1,
                          !.currentResolve = NoPid,
                          !.currentReject =
                              IF e.currentResolve # NoPid THEN NoPid ELSE @,
                          !.busy = ~@],
          threw |-> FALSE,
          resolved |-> e.currentResolve]

\* Engine.abort(): the result names the promise it resolved with [], if any;
\* threw is the TypeError of this.worker.postMessage on a null worker
abort(e) ==
    IF e.worker = "null"
    THEN [e |-> e, threw |-> TRUE, resolved |-> NoPid]
    ELSE [e |-> [e EXCEPT !.stops = 1,
                          !.currentResolve = NoPid,
                          !.currentReject =
                              IF e.currentResolve # NoPid THEN NoPid ELSE @,
                          !.busy = FALSE],
          threw |-> FALSE,
          resolved |-> e.currentResolve]

\* handleError(err) that rejects the promise and keeps the failed worker
handleErrorKeepsWorker(e, avail) ==
    LET cleared == IF e.currentReject # NoPid
                   THEN [e EXCEPT !.currentResolve = NoPid,
                                  !.currentReject = NoPid]
                   ELSE e
    IN [e |-> cleared, rejected |-> e.currentReject]

\* Engine.handleError(err): the result names the promise it rejected, if any
handleError(e, avail) ==
    LET cleared == IF e.currentReject # NoPid
                   THEN [e EXCEPT !.currentResolve = NoPid,
                                  !.currentReject = NoPid]
                   ELSE e
    IN [e |-> fallbackToAlternativeEngine(cleared, 0, avail),
        rejected |-> e.currentReject]

\* Engine.evaluate(fen, targetDepth, false, null, fallen, maxMoveTime) for
\* job j of batch b.  out = "pending": the promise Pid(b, j, f) was created,
\* its message handler attached and its safety timeout armed (timer).
\* out = "rejected": no worker and no profile left to try; the calls
\* evaluate(fallen + 1) nest without end and the RangeError of the
\* exhausted stack rejects the returned promise.
RECURSIVE evaluate(_, _, _, _, _)
evaluate(e, b, j, fallen, avail) ==
    LET e1 == [e EXCEPT !.busy = TRUE]
    IN IF e1.worker = "null"
       THEN IF fallen > FallbackStop
            THEN [e |-> e1, out |-> "rejected", timer |-> <<>>]
            ELSE evaluate(fallbackToAlternativeEngine(e1, fallen, avail),
                          b, j, fallen + 1, avail)
       ELSE [e |-> [e1 EXCEPT
                      !.going = IF e1.worker = "live" THEN @ + 1 ELSE @,
                      !.emitted = 0,
                      !.currentResolve = Pid(b, j, fallen),
                      !.currentReject = Pid(b, j, fallen),
                      !.listeners = Append(@, [pid |-> Pid(b, j, fallen),
                                               messages |-> <<>>])],
             out |-> "pending",
             timer |-> <<[kind |-> "safety", pid |-> Pid(b, j, fallen)]>>]

\* ------------------------------------------------ scheduler closure state
NoEntry == [set |-> FALSE, i |-> 0, move |-> HistoryMove(0),
            hasLines |-> FALSE, lines |-> <<>>, writes |-> 0]

NoBatch == [phase |-> "none", n |-> 0, hw |-> 0, callback |-> TRUE,
            queue |-> <<>>,
            moves |-> <<>>, jobs |-> <<>>, completedMoves |-> 0,
            awaiting |-> 0, stalled |-> FALSE, progress |-> <<>>,
            resolvedAt |-> 0, cancelled |-> FALSE]

\* how an evaluate() promise settled: resolved with lines (ok) or rejected;
\* via names the code path that settled it
Ok(lines, via) == [ok |-> TRUE, lines |-> lines, via |-> via]
Failed(via) == [ok |-> FALSE, lines |-> <<>>, via |-> via]

Reaction(kind, b, j, res) == [kind |-> kind, b |-> b, j |-> j, res |-> res]

\* The imperative code is threaded through a record S of the mutable state:
\* S.b batches, S.p pool, S.t timers, S.m microtasks.
State == [b |-> batches, p |-> pool, t |-> timers, m |-> microtasks]

\* Settling the promise pid of an evaluate() call.  Every evaluate() promise
\* of a job is chained to the one processBatch awaits (.then(resolve) at the
\* safety timeout, promise adoption at `return this.evaluate(...)`), so the
\* first settlement queues the continuation of the job's await; settling a
\* promise again has no effect.
Settle(S, pid, res) ==
    IF pid = NoPid \/ S.b[pid[1]].jobs[pid[2]].st # "inflight" THEN S
    ELSE [S EXCEPT !.b[pid[1]].jobs[pid[2]].st = "settled",
                   !.b[pid[1]].jobs[pid[2]].via = res.via,
                   !.m = Append(@, Reaction("cont", pid[1], pid[2], res))]

\* a teardown loop that starts at the second handle
TerminateAllButFirst(handles) ==
    [h \in 1..Len(handles) |->
        IF h = 1 THEN handles[h] ELSE TerminateWorker(handles[h])]

\* workerPool.forEach(worker => worker.worker.terminate()) of processBatch
TerminateAll(handles) == [h \in 1..Len(handles) |-> TerminateWorker(handles[h])]

\* progressCallback(100, engineName); resolve(moves)
\* With progressCallback = null the call throws inside the async
\* processBatch, whose rejection nobody handles: the batch promise stays
\* pending.
Finish(S, b) ==
    IF ~S.b[b].callback
    THEN [S EXCEPT !.b[b].stalled = TRUE]
    ELSE [S EXCEPT !.b[b].progress = Append(@, 100),
                   !.b[b].phase = "resolved",
                   !.b[b].resolvedAt = Len(S.b[b].progress) + 1]

\* idle handles of the pool, in pool order
RECURSIVE AvailableFrom(_, _)
AvailableFrom(handles, h) ==
    IF h > Len(handles) THEN <<>>
    ELSE IF handles[h].busy THEN AvailableFrom(handles, h + 1)
         ELSE <<h>> \o AvailableFrom(handles, h + 1)

AvailableWorkers(handles) == AvailableFrom(handles, 1)

\* batch.map(async ({ worker, move }) => ...) up to its await: the k-th
\* pair and the ones after it call worker.evaluate in turn
RECURSIVE StartBatch(_, _, _, _, _, _)
StartBatch(S, b, ws, js, k, avail) ==
    IF k > Len(js) THEN S
    ELSE LET h == ws[k]
             j == js[k]
             r == evaluate(S.p[b][h], b, j, 0, avail)
             S1 == [S EXCEPT !.p[b][h] = r.e,
                             !.t = @ \o [x \in 1..Len(r.timer) |->
                                           [kind |-> "safety", b |-> b,
                                            h |-> h, pid |-> r.timer[x].pid]]]
             S2 == IF r.out = "rejected"
                   THEN Settle(S1, Pid(b, j, 0), Failed("overflow"))
                   ELSE [S1 EXCEPT !.b[b].jobs[j].attempts = @ + 1]
         IN StartBatch(S2, b, ws, js, k + 1, avail)

\* a scheduler that hands out the newest jobs of the queue first
QueuePop(queue, k) == [x \in 1..k |-> queue[Len(queue) + 1 - x]]

\* queue.shift(), once per idle worker: the k oldest jobs of the queue
QueueShift(queue, k) == SubSeq(queue, 1, k)

\* a shift that leaves the job it handed out last in the queue
QueueKeepsLast(queue, k) == SubSeq(queue, k, Len(queue))

\* what queue.shift() leaves in the queue after k calls
QueueRest(queue, k) == SubSeq(queue, k + 1, Len(queue))

\* processBatch(), one scheduling tick of batch b
processBatch(S, b, cancel, avail) ==
    IF cancel
    THEN Finish([S EXCEPT !.p[b] = TerminateAll(@)], b)
    ELSE LET ws == AvailableWorkers(S.p[b])
             k == Min(Len(ws), Len(S.b[b].queue))
             js == QueueShift(S.b[b].queue, k)
         IN IF k = 0
            THEN IF S.b[b].completedMoves = S.b[b].n
                 THEN Finish([S EXCEPT !.p[b] = TerminateAll(@)], b)
                 ELSE [S EXCEPT !.t = Append(@, [kind |-> "poll", b |-> b,
                                                 h |-> 0, pid |-> NoPid])]
            ELSE LET S1 == [S EXCEPT
                              !.b[b].queue = QueueRest(@, k),
                              !.b[b].awaiting = k,
                              !.b[b].jobs = [j \in 1..Len(@) |->
                                  IF \E x \in 1..k : js[x] = j
                                  THEN [@[j] EXCEPT
                                          !.st = "inflight",
                                          !.dispatches = @ + 1,
                                          !.h = ws[CHOOSE x \in 1..k : js[x] = j]]
                                  ELSE @[j]],
                              !.p[b] = [h \in 1..Len(@) |->
                                  IF \E x \in 1..k : ws[x] = h
                                  THEN [@[h] EXCEPT !.busy = TRUE]
                                  ELSE @[h]]]
                 IN StartBatch(S1, b, ws, js, 1, avail)

\* the result appended in completion order: moves[first empty slot] = move
StoreMoveAtFirstHole(moves, j, res) ==
    LET k == CHOOSE x \in 1..Len(moves) :
                 ~moves[x].set /\ \A y \in 1..(x - 1) : moves[y].set
    IN [moves EXCEPT ![k] = [set |-> TRUE, i |-> j, move |-> HistoryMove(j),
                             hasLines |-> res.ok, lines |-> res.lines,
                             writes |-> moves[k].writes + 1]]

\* a catch block that drops the failed job instead of storing it
StoreMoveUnlessFailed(moves, j, res) ==
    IF res.ok
    THEN [moves EXCEPT ![j] = [set |-> TRUE, i |-> j, move |-> HistoryMove(j),
                               hasLines |-> TRUE, lines |-> res.lines,
                               writes |-> moves[j].writes + 1]]
    ELSE moves

\* moves[move.i] = move
StoreMove(moves, j, res) ==
    [moves EXCEPT ![j] = [set |-> TRUE, i |-> j, move |-> HistoryMove(j),
                          hasLines |-> res.ok, lines |-> res.lines,
                          writes |-> moves[j].writes + 1]]

\* the next tick taken as soon as one callback of the batch has finished
BatchSettledOnFirst(bt) == TRUE

\* await Promise.all(batch.map(...)): every callback of the tick has finished
BatchSettled(bt) == bt.awaiting = 0

\* the rest of the async callback of batch.map after `await
\* worker.evaluate(...)`: try / catch / finally, then Promise.all
Continue(S, b, j, res) ==
    LET h == S.b[b].jobs[j].h
        c == S.b[b].completedMoves + 1
        S1 == [S EXCEPT !.b[b].moves = StoreMove(@, j, res),
                        !.b[b].completedMoves = c,
                        !.b[b].jobs[j].st = "done",
                        !.p[b][h].busy = FALSE]
    IN IF ~S.b[b].callback
       THEN [S1 EXCEPT !.b[b].stalled = TRUE]
       ELSE LET S2 == [S1 EXCEPT
                         !.b[b].progress = Append(@, Percent(c, S.b[b].n)),
                         !.b[b].awaiting = @ - 1]
            IN IF BatchSettled(S2.b[b]) /\ ~S2.b[b].stalled
               THEN [S2 EXCEPT !.m = Append(@, Reaction("tick", b, 0,
                                                        Failed("none")))]
               ELSE S2

\* ------------------------------------------------------------ listeners
\* position of the message handler of promise pid among the listeners, or 0
ListenerAt(e, pid) ==
    IF \E x \in 1..Len(e.listeners) : e.listeners[x].pid = pid
    THEN CHOOSE x \in 1..Len(e.listeners) : e.listeners[x].pid = pid
    ELSE 0

\* this.worker.removeEventListener("message", messageHandler)
RemoveListener(e, pid) ==
    [e EXCEPT !.listeners = SelectSeq(@, LAMBDA l : l.pid # pid)]

\* a message handler that marks the handle idle on every message
messageHandlerIdleEarly(S, b, h, pid, m) ==
    LET e == S.p[b][h]
        x == ListenerAt(e, pid)
        messages == <<m>> \o e.listeners[x].messages
    IN IF x = 0 THEN S
       ELSE IF EndsSearch(m)
       THEN LET lines == interpret(messages, BlackToMove(pid[2]))
                e1 == [RemoveListener(e, pid) EXCEPT
                          !.busy = FALSE,
                          !.currentResolve = NoPid,
                          !.currentReject = NoPid]
            IN Settle([S EXCEPT !.p[b][h] = e1], pid, Ok(lines, "bestmove"))
       ELSE [S EXCEPT !.p[b][h].listeners[x].messages = messages,
                      !.p[b][h].busy = FALSE]

\* messageHandler(event) of the evaluate() call that created promise pid
messageHandler(S, b, h, pid, m) ==
    LET e == S.p[b][h]
        x == ListenerAt(e, pid)
        messages == <<m>> \o e.listeners[x].messages
    IN IF x = 0 THEN S
       ELSE IF EndsSearch(m)
       THEN LET lines == interpret(messages, BlackToMove(pid[2]))
                e1 == [RemoveListener(e, pid) EXCEPT
                          !.busy = FALSE,
                          !.currentResolve = NoPid,
                          !.currentReject = NoPid]
            IN Settle([S EXCEPT !.p[b][h] = e1], pid, Ok(lines, "bestmove"))
       ELSE [S EXCEPT !.p[b][h].listeners[x].messages = messages]

\* a timeout that retries once more before it gives up
ShouldRetryOnceMore(fallen) == fallen < GiveUpFallen + 1

\* if (fallen < 2): try the fallback engine, else give up
ShouldRetry(fallen) == fallen < GiveUpFallen

\* a give-up branch that clears the handle and leaves the promise pending
giveUpSilently(S, b, h, pid, e1) ==
    [S EXCEPT !.p[b][h] = [e1 EXCEPT !.busy = FALSE,
                                     !.currentResolve = NoPid,
                                     !.currentReject = NoPid]]

\* the give-up branch of the safety timeout: resolve([])
giveUp(S, b, h, pid, e1) ==
    Settle([S EXCEPT !.p[b][h] = [e1 EXCEPT !.busy = FALSE,
                                            !.currentResolve = NoPid,
                                            !.currentReject = NoPid]],
           pid, Ok(<<>>, "timeout"))

\* a timeout that asks only whether the handle is busy
StillBusy(e, pid) == e.busy

\* if (this.busy && this.currentResolve === resolve)
StillWaiting(e, pid) == e.busy /\ e.currentResolve = pid

\* the callback of the safety setTimeout armed by evaluate() for promise pid
safetyTimeout(S, b, h, pid, avail) ==
    LET e == S.p[b][h]
        j == pid[2]
        fallen == pid[3]
    IN IF ~StillWaiting(e, pid) \/ e.worker = "null" THEN S
       ELSE LET e1 == RemoveListener(e, pid)
            IN IF ShouldRetry(fallen)
               THEN LET r == evaluate(
                               fallbackToAlternativeEngine(e1, fallen, avail),
                               b, j, fallen + 1, avail)
                        S1 == [S EXCEPT
                                 !.p[b][h] = r.e,
                                 !.t = @ \o [x \in 1..Len(r.timer) |->
                                               [kind |-> "safety", b |-> b,
                                                h |-> h,
                                                pid |-> r.timer[x].pid]]]
                    IN IF r.out = "rejected"
                       THEN Settle(S1, pid, Failed("overflow"))
                       ELSE [S1 EXCEPT !.b[b].jobs[j].attempts = @ + 1]
               ELSE giveUp(S, b, h, pid, e1)

\* the forEach of cancelActiveAnalysis from handle h on; a throw inside the
\* loop leaves it (the try around the forEach swallows it)
RECURSIVE CancelFrom(_, _, _)
CancelFrom(S, b, h) ==
    IF h > Len(S.p[b]) THEN S
    ELSE LET r == abort(S.p[b][h])
         IN IF r.threw THEN S
            ELSE CancelFrom(
                   Settle([S EXCEPT !.p[b][h] = TerminateWorker(r.e)],
                          r.resolved, Ok(<<>>, "abort")),
                   b, h + 1)

\* history kept for the properties: the batches whose promise is pending
\* when cancelActiveAnalysis() is called are marked cancelled
MarkCancelled(S) ==
    [S EXCEPT !.b = [b \in 1..Len(@) |->
                        IF @[b].phase = "running"
                        THEN [@[b] EXCEPT !.cancelled = TRUE]
                        ELSE @[b]]]

\* ---------------------------------------------------------------- Init
\* MoveEvaluator as loaded: workerPool = [], cancelRequested = false, no
\* batch started; the environment fixes which engine scripts can be started
Loaded ==
    /\ cancelRequested = FALSE
    /\ workerPool = 0
    /\ available \in SUBSET Profiles
    /\ batches = [b \in 1..MaxBatches |-> NoBatch]
    /\ pool = [b \in 1..MaxBatches |-> <<>>]
    /\ timers = <<>>
    /\ microtasks = <<>>
    /\ dispatch = <<>>
    /\ nErrors = 0
    /\ nCancels = 0

\* no function is being called outside a batch
NoCall == [fn |-> "none"]

Init ==
    /\ Loaded
    /\ batchLimit = 1
    /\ jobLimit = MaxJobs
    /\ hwLimit = MaxHW
    /\ call = NoCall

FairInit ==
    /\ Loaded
    /\ batchLimit = 1
    /\ jobLimit = MaxFairJobs
    /\ hwLimit = MaxHW
    /\ call = NoCall

\* scores a search reports: centipawns or moves to mate, of either sign
Scores == {<<20, "cp">>, <<0 - 35, "cp">>, <<0 - 2, "mate">>}

\* what a worker prints during a search: "info depth d ... multipv k score
\* <type> s ... pv ...", the notifications that carry a depth and neither
\* rank nor principal variation ("info depth d currmove ...", "info depth 0
\* score mate 0"), and "bestmove ..."
UciLines ==
    {Info(d, k, sc[1], sc[2], TRUE) :
        d \in 1..MaxDepth, k \in 1..MaxPV, sc \in Scores}
    \cup {Info(d, 0, 0, "mate", FALSE) : d \in 0..MaxDepth}
    \cup {Bestmove}

\* the scheduler at rest, every engine script loadable
AtRest ==
    /\ Loaded
    /\ available = Profiles
    /\ batchLimit = 0
    /\ jobLimit = 0
    /\ hwLimit = 0

\* an evaluate() call that collects the messages of its search
InterpretInit ==
    /\ AtRest
    /\ call = [fn |-> "interpret", messages |-> <<>>, black |-> FALSE,
               returned |-> FALSE, lines |-> <<>>]

\* Classification of MoveClassifier.js: label types with their nominal
\* accuracy, here in hundredths
THEORY == [type |-> "theory", accuracy |-> 100]
BEST == [type |-> "best", accuracy |-> 100]
GOOD == [type |-> "good", accuracy |-> 65]
MISTAKE == [type |-> "mistake", accuracy |-> 40]
BLUNDER == [type |-> "blunder", accuracy |-> 20]
Classification == {THEORY, BEST, GOOD, MISTAKE, BLUNDER}
NoClassification == [type |-> "none", accuracy |-> 0]

\* what MoveClassifier.classifyMove(move, previous, movesUpToCurrent) can
\* leave on the move it is given: a label and the isTopEngineMove flag
ClassifyOutcomes ==
    [classification : Classification, isTopEngineMove : BOOLEAN]

\* an entry of the array batchEvaluateMoves resolves with: a stored move,
\* or a hole where a cancelled batch stored nothing
StoredMove == [set |-> TRUE, classification |-> NoClassification,
               graph |-> 0 - 1, isTopEngineMove |-> FALSE, lines |-> <<>>]
Hole == [set |-> FALSE, classification |-> NoClassification,
         graph |-> 0 - 1, isTopEngineMove |-> FALSE, lines |-> <<>>]

\* move.lines of a stored move: nothing when the evaluation failed or was
\* aborted, or else the lines of the search, of which the first is kept
GameLines ==
    {<<>>, <<[score |-> 0 - 300, type |-> "cp"]>>}

\* the arrays a batch of n moves resolves with: the first move, evaluated
\* in the first tick, is always stored
ResolvedMoves(n) ==
    {m \in [1..n -> {Hole} \cup {[StoredMove EXCEPT !.lines = l] :
                                    l \in GameLines}] : m[1].set}

\* a loop that starts at the first move
LoopFromFirstMove == 2 - 1

\* for (let i = 1; ...), counted from 1
LoopStart == 2

\* for (let i = 1; i < moves.length; i++)
\*     MoveClassifier.classifyMove(moves[i], moves[i - 1], ...)
\* outcome[i] is what the classifier does to move i; calls lists the
\* arguments of the calls made
RECURSIVE ClassifyLoop(_, _, _, _)
ClassifyLoop(moves, i, outcome, calls) ==
    IF i > Len(moves) THEN [moves |-> moves, calls |-> calls]
    ELSE ClassifyLoop(
           IF moves[i].set
           THEN [moves EXCEPT
                   ![i].classification = outcome[i].classification,
                   ![i].isTopEngineMove = outcome[i].isTopEngineMove]
           ELSE moves,
           i + 1, outcome,
           Append(calls, [move |-> i, previous |-> i - 1]))

\* a sum that takes the accuracy of the label for every move
AccuracyOfLabel(move) == move.classification.accuracy

\* move.isTopEngineMove ? 1.0 : move.classification.accuracy, in hundredths
AccuracyTerm(move) ==
    IF move.isTopEngineMove THEN 100 ELSE move.classification.accuracy

\* movesArray.reduce((sum, move) => sum + (...), 0)
RECURSIVE AccuracySum(_)
AccuracySum(movesArray) ==
    IF movesArray = <<>> THEN 0
    ELSE AccuracyTerm(Head(movesArray)) + AccuracySum(Tail(movesArray))

\* moves.filter(move => move.fen.includes(' b ')) for black = TRUE, the
\* moves White played; filter passes over the holes of the array
RECURSIVE SideMoves(_, _, _)
SideMoves(moves, i, black) ==
    IF i > Len(moves) THEN <<>>
    ELSE IF moves[i].set /\ BlackToMove(i) = black
         THEN <<moves[i]>> \o SideMoves(moves, i + 1, black)
         ELSE SideMoves(moves, i + 1, black)

\* the number a / b of two numbers that are not negative, as a fraction;
\* 0 / 0 is NaN
NaN == [nan |-> TRUE, num |-> 0, den |-> 1]
Divide(a, b) ==
    IF b = 0 /\ a = 0 THEN NaN ELSE [nan |-> FALSE, num |-> a, den |-> b]

\* whiteMoves.reduce(...) / whiteMoves.length: the sum, the length and
\* the accuracy returned
SideAccuracy(sideMoves) ==
    [sum |-> AccuracySum(sideMoves), length |-> Len(sideMoves),
     accuracy |-> Divide(AccuracySum(sideMoves), Len(sideMoves))]

\* a side of which nothing was computed
NoAccuracy == [sum |-> 0, length |-> 0, accuracy |-> Divide(0, 1)]

\* analyzeGame after `await batchEvaluateMoves(...)`: the first move is
\* labelled, the others are classified, the accuracy of each side is taken
analyzeGame(moves, outcome) ==
    IF ~moves[1].set
    THEN [threw |-> TRUE, moves |-> moves, calls |-> <<>>,
          white |-> NoAccuracy, black |-> NoAccuracy]
    ELSE LET first == [moves EXCEPT ![1].classification = THEORY,
                                    ![1].graph = 50]
             r == ClassifyLoop(first, LoopStart, outcome, <<>>)
             whiteMoves == SideMoves(r.moves, 1, TRUE)
             blackMoves == SideMoves(r.moves, 1, FALSE)
         IN [threw |-> FALSE, moves |-> r.moves, calls |-> r.calls,
             white |-> SideAccuracy(whiteMoves),
             black |-> SideAccuracy(blackMoves)]

\* analyzeGame is about to continue with the array of its batch
GameInit ==
    /\ AtRest
    /\ \E n \in 1..MaxGameMoves : \E m \in ResolvedMoves(n) :
          call = [fn |-> "analyzeGame", returned |-> FALSE, threw |-> FALSE,
                  moves |-> m, calls |-> <<>>,
                  white |-> NoAccuracy, black |-> NoAccuracy]

\* a browser that reports fewer cores than the game has moves
SchedInit ==
    /\ Loaded
    /\ batchLimit = 1
    /\ jobLimit = MaxSchedJobs
    /\ hwLimit = MaxSchedHW
    /\ call = NoCall

\* ------------------------------------------------- AccuracyCalculator
\* Numbers are fixed-point.  Win percentages, accuracies, standard
\* deviations and weights are in hundredths (100% is 10000); the values of
\* Math.exp are in units of 1 / Unit; its arguments are in millionths.

\* 1.0 as a value of Math.exp
Unit == 100000

\* the distance of two entries of ExpTable, in millionths
ExpStep == 50000

\* Math.exp(-0.05 * j) for j = 0, 1, 2, ... up to the first entry that
\* rounds to 0
ExpTable ==
    << 100000, 95123, 90484, 86071, 81873, 77880, 74082, 70469, 67032, 63763,
       60653, 57695, 54881, 52205, 49659, 47237, 44933, 42741, 40657, 38674,
       36788, 34994, 33287, 31664, 30119, 28650, 27253, 25924, 24660, 23457,
       22313, 21225, 20190, 19205, 18268, 17377, 16530, 15724, 14957, 14227,
       13534, 12873, 12246, 11648, 11080, 10540, 10026, 9537, 9072, 8629,
       8208, 7808, 7427, 7065, 6721, 6393, 6081, 5784, 5502, 5234,
       4979, 4736, 4505, 4285, 4076, 3877, 3688, 3508, 3337, 3175,
       3020, 2872, 2732, 2599, 2472, 2352, 2237, 2128, 2024, 1925,
       1832, 1742, 1657, 1576, 1500, 1426, 1357, 1291, 1228, 1168,
       1111, 1057, 1005, 956, 910, 865, 823, 783, 745, 708,
       674, 641, 610, 580, 552, 525, 499, 475, 452, 430,
       409, 389, 370, 352, 335, 318, 303, 288, 274, 261,
       248, 236, 224, 213, 203, 193, 184, 175, 166, 158,
       150, 143, 136, 129, 123, 117, 111, 106, 101, 96,
       91, 87, 83, 78, 75, 71, 68, 64, 61, 58,
       55, 53, 50, 48, 45, 43, 41, 39, 37, 35,
       34, 32, 30, 29, 27, 26, 25, 24, 22, 21,
       20, 19, 18, 18, 17, 16, 15, 14, 14, 13,
       12, 12, 11, 11, 10, 10, 9, 9, 8, 8,
       7, 7, 7, 6, 6, 6, 6, 5, 5, 5,
       5, 4, 4, 4, 4, 4, 3, 3, 3, 3,
       3, 3, 2, 2, 2, 2, 2, 2, 2, 2,
       2, 2, 2, 1, 1, 1, 1, 1, 1, 1,
       1, 1, 1, 1, 1, 1, 1, 1, 1, 1,
       1, 1, 1, 1, 1, 0 >>

\* Math.exp(-x) for x >= 0: between two entries of the table the value is
\* interpolated, beyond the table it is 0
ExpNeg(x) ==
    LET j == x \div ExpStep
    IN IF j + 2 > Len(ExpTable) THEN 0
       ELSE ExpTable[j + 1]
            - ((ExpTable[j + 1] - ExpTable[j + 2]) * (x % ExpStep))
              \div ExpStep

Max(a, b) == IF a > b THEN a ELSE b
Abs(a) == IF a < 0 THEN 0 - a ELSE a

\* Math.max(lo, Math.min(hi, x))
Clamp(lo, hi, x) == Max(lo, Min(hi, x))

\* the saturated values returned the wrong way round
centipawnsToWinPercentSwapped(centipawns) ==
    IF Abs(centipawns) > 10000
    THEN (IF centipawns > 0 THEN 0 ELSE 10000)
    ELSE LET e == ExpNeg(3682 * Abs(centipawns)
                         + (8 * Abs(centipawns)) \div 100)
         IN Clamp(0, 10000,
                  IF centipawns >= 0
                  THEN (10000 * Unit) \div (Unit + e)
                  ELSE (10000 * e) \div (Unit + e))

\* centipawnsToWinPercent(centipawns) for a number (every call passes the
\* number getCentipawns returned): beyond 10000 the value is 100 or 0,
\* otherwise 50 + 50 * (2 / (1 + Math.exp(-0.00368208 * centipawns)) - 1),
\* which is 100 / (1 + e) with e = Math.exp(-0.00368208 * centipawns); for
\* a negative score e is 1 / Math.exp(-0.00368208 * |centipawns|)
centipawnsToWinPercent(centipawns) ==
    IF Abs(centipawns) > 10000
    THEN (IF centipawns > 0 THEN 10000 ELSE 0)
    ELSE LET e == ExpNeg(3682 * Abs(centipawns)
                         + (8 * Abs(centipawns)) \div 100)
         IN Clamp(0, 10000,
                  IF centipawns >= 0
                  THEN (10000 * Unit) \div (Unit + e)
                  ELSE (10000 * e) \div (Unit + e))

\* the accuracy formula without Math.max(0, Math.min(100, ...))
calculateMoveAccuracyUnclamped(winPercentBefore, winPercentAfter) ==
    LET winPercentLoss == Max(0, winPercentBefore - winPercentAfter)
    IN (10317 * ExpNeg((4354 * winPercentLoss) \div 10)) \div Unit - 317

\* calculateMoveAccuracy: 103.1668 * Math.exp(-0.04354 * winPercentLoss)
\* - 3.1669, kept within 0 and 100
calculateMoveAccuracy(winPercentBefore, winPercentAfter) ==
    LET winPercentLoss == Max(0, winPercentBefore - winPercentAfter)
        accuracy == (10317 * ExpNeg((4354 * winPercentLoss) \div 10))
                    \div Unit - 317
    IN Clamp(0, 10000, accuracy)

\* the sum of values[lo], ..., values[hi], taken half by half
RECURSIVE SumOver(_, _, _)
SumOver(values, lo, hi) ==
    IF lo > hi THEN 0
    ELSE IF lo = hi THEN values[lo]
    ELSE SumOver(values, lo, (lo + hi) \div 2)
         + SumOver(values, (lo + hi) \div 2 + 1, hi)

\* values.reduce((sum, val) => sum + val, 0)
Sum(values) == SumOver(values, 1, Len(values))

\* Math.sqrt(v), rounded down: the root lies in lo..hi
RECURSIVE SqrtIn(_, _, _)
SqrtIn(v, lo, hi) ==
    IF lo = hi THEN lo
    ELSE LET mid == (lo + hi + 1) \div 2
         IN IF mid * mid <= v THEN SqrtIn(v, mid, hi)
            ELSE SqrtIn(v, lo, mid - 1)

\* standardDeviation(values)
standardDeviation(values) ==
    IF Len(values) = 0 THEN 0
    ELSE LET mean == Sum(values) \div Len(values)
             squaredDiffs == [i \in 1..Len(values) |->
                                (values[i] - mean) * (values[i] - mean)]
             variance == Sum(squaredDiffs) \div Len(values)
         IN SqrtIn(variance, 0, 10000)

\* null, and a number, as the value of a summary
Null == <<>>
Number(v) == <<v>>

\* weightedMean(weightedValues) on [value, weight] pairs
weightedMean(weightedValues) ==
    IF Len(weightedValues) = 0 THEN Null
    ELSE LET sumWeightedValues ==
                 Sum([i \in 1..Len(weightedValues) |->
                        weightedValues[i][1] * weightedValues[i][2]])
             sumWeights ==
                 Sum([i \in 1..Len(weightedValues) |-> weightedValues[i][2]])
         IN IF sumWeights > 0
            THEN Number(sumWeightedValues \div sumWeights)
            ELSE Null

\* 1 / val in units of 1 / Reciprocal
Reciprocal == 20000000

\* harmonicMean(values): the values that are not above 0 are filtered out
harmonicMean(values) ==
    IF Len(values) = 0 THEN Null
    ELSE LET validValues == SelectSeq(values, LAMBDA v : v > 0)
         IN IF Len(validValues) = 0 THEN Null
            ELSE LET sumReciprocals ==
                         Sum([i \in 1..Len(validValues) |->
                                Reciprocal \div validValues[i]])
                 IN Number((Len(validValues) * Reciprocal)
                           \div sumReciprocals)

\* an evaluation { score, type }, and the one the code assumes where a
\* move has no first line and before the first move
Eval(score, type) == [score |-> score, type |-> type]
DefaultEval == Eval(0, "cp")

\* moves[i].lines?.[0] || { score: 0, type: 'cp' }
FirstLine(move) == IF move.lines = <<>> THEN DefaultEval ELSE move.lines[1]

\* a mate of n moves taken for a score of n pawns
getCentipawnsMateInPawns(evaluation) ==
    IF evaluation.type = "mate" THEN 100 * evaluation.score
    ELSE evaluation.score

\* getCentipawns(evaluation): `evaluation.score || 0` is the score, and
\* the evaluation is never missing, the callers having put the default
getCentipawns(evaluation) ==
    IF evaluation.type = "mate"
    THEN (IF evaluation.score > 0 THEN 20000 ELSE 0 - 20000)
    ELSE evaluation.score

\* let cp = getCentipawns(...); if (color === 'black') cp = -cp
PlayerCentipawns(evaluation, color) ==
    IF color = "black" THEN 0 - getCentipawns(evaluation)
    ELSE getCentipawns(evaluation)

\* isWhiteMove / isBlackMove of the move at index i, counted from 1: the
\* position after a move of White has Black to move
IsMoveOf(color, i) == (color = "white") = BlackToMove(i)

\* the body of the loop that fills evaluationPairs, for index i: what it
\* pushes
EvaluationPair(moves, i, color) ==
    IF ~IsMoveOf(color, i) THEN <<>>
    ELSE <<[before |-> IF i = 1 THEN DefaultEval
                       ELSE FirstLine(moves[i - 1]),
            after |-> FirstLine(moves[i])]>>

\* the pairs pushed for the indices lo, ..., hi, in order (the range is
\* taken half by half)
RECURSIVE EvaluationPairs(_, _, _, _)
EvaluationPairs(moves, lo, hi, color) ==
    IF lo > hi THEN <<>>
    ELSE IF lo = hi THEN EvaluationPair(moves, lo, color)
    ELSE EvaluationPairs(moves, lo, (lo + hi) \div 2, color)
         \o EvaluationPairs(moves, (lo + hi) \div 2 + 1, hi, color)

\* array.slice(from, to) with 0 <= from
Slice(array, from, to) == SubSeq(array, from + 1, Min(to, Len(array)))

\* no window repeated at the start
InitialWindowCountNoPadding(windowSize, length) == 0

\* Math.min(windowSize - 2, allWinPercents.length - 2)
InitialWindowCount(windowSize, length) == Min(windowSize - 2, length - 2)

\* the weighted mean alone
CombineWeightedOnly(weightedMeanValue, harmonicMeanValue) ==
    IF weightedMeanValue = Null THEN 0 ELSE weightedMeanValue[1]

\* the last four statements of calculateGameAccuracy
Combine(weightedMeanValue, harmonicMeanValue) ==
    IF weightedMeanValue = Null /\ harmonicMeanValue = Null THEN 0
    ELSE IF weightedMeanValue = Null THEN harmonicMeanValue[1]
    ELSE IF harmonicMeanValue = Null THEN weightedMeanValue[1]
    ELSE (weightedMeanValue[1] + harmonicMeanValue[1]) \div 2

\* what calculateGameAccuracy leaves when it returns before the windows
EarlyReturn(threw) ==
    [threw |-> threw, value |-> 0, evaluationPairs |-> <<>>,
     allWinPercents |-> <<>>, windowSize |-> 0, windows |-> <<>>,
     weights |-> <<>>, weightedAccuracies |-> <<>>,
     weightedMeanValue |-> Null, harmonicMeanValue |-> Null]

\* calculateGameAccuracy(moves, color): its return value with the values
\* of its local variables; `move.fen` throws on a hole of the array
calculateGameAccuracy(moves, color) ==
    IF Len(moves) = 0 THEN EarlyReturn(FALSE)
    ELSE IF \E i \in 1..Len(moves) : ~moves[i].set THEN EarlyReturn(TRUE)
    ELSE
    LET evaluationPairs == EvaluationPairs(moves, 1, Len(moves), color)
        n == Len(evaluationPairs)
        allWinPercents ==
            [i \in 1..(n + 1) |->
                centipawnsToWinPercent(
                    PlayerCentipawns(IF i <= n THEN evaluationPairs[i].before
                                     ELSE evaluationPairs[n].after, color))]
        windowSize == Max(2, Min(8, n \div 10))
        initialWindowCount == InitialWindowCount(windowSize, n + 1)
        windows ==
            [i \in 1..initialWindowCount |->
                Slice(allWinPercents, 0, windowSize)]
            \o [i \in 1..(n + 1 - windowSize + 1) |->
                  Slice(allWinPercents, i - 1, i - 1 + windowSize)]
        weights ==
            [i \in 1..Len(windows) |->
                Clamp(50, 1200, standardDeviation(windows[i]))]
        weightedAccuracies ==
            [i \in 1..Min(n, Len(weights)) |->
                <<calculateMoveAccuracy(allWinPercents[i],
                                        allWinPercents[i + 1]),
                  weights[i]>>]
        weightedMeanValue == weightedMean(weightedAccuracies)
        accuracyValues ==
            [i \in 1..Len(weightedAccuracies) |-> weightedAccuracies[i][1]]
        harmonicMeanValue == harmonicMean(accuracyValues)
    IN IF n = 0 THEN EarlyReturn(FALSE)
       ELSE [threw |-> FALSE,
             value |-> Combine(weightedMeanValue, harmonicMeanValue),
             evaluationPairs |-> evaluationPairs,
             allWinPercents |-> allWinPercents,
             windowSize |-> windowSize, windows |-> windows,
             weights |-> weights,
             weightedAccuracies |-> weightedAccuracies,
             weightedMeanValue |-> weightedMeanValue,
             harmonicMeanValue |-> harmonicMeanValue]

\* calculateBothPlayerAccuracies(moves)
calculateBothPlayerAccuracies(moves) ==
    [white |-> calculateGameAccuracy(moves, "white"),
     black |-> calculateGameAccuracy(moves, "black")]

\* the first lines a search leaves on a move: level, a pawn up or down, a
\* forced mate for either side
Evaluations ==
    {Eval(0, "cp"), Eval(300, "cp"), Eval(0 - 300, "cp"),
     Eval(1, "mate"), Eval(0 - 1, "mate")}

\* a move as the calculator reads it: stored, with or without lines
EvaluatedMove(lines) == [set |-> TRUE, lines |-> lines]

\* every game of up to MaxPlies moves
ShortGames ==
    UNION {[1..n -> {EvaluatedMove(<<>>)}
                    \cup {EvaluatedMove(<<e>>) : e \in Evaluations}] :
           n \in 0..MaxPlies}

\* a game of n moves a side in which the side of sign s (1 for White) has
\* a forced mate until its k-th move lets the opponent mate; with k = n + 1
\* it never does
SwingGame(n, k, s) ==
    [i \in 1..(2 * n) |->
        EvaluatedMove(<<Eval(IF i < 2 * k - (IF s = 1 THEN 1 ELSE 0)
                             THEN s ELSE 0 - s, "mate")>>)]

LongGames ==
    UNION {{SwingGame(n, k, s) : k \in 1..(n + 1), s \in {1, 0 - 1}} :
           n \in 1..MaxSideMoves}

\* calculateGameAccuracy is about to be called
AccuracyInit ==
    /\ AtRest
    /\ \E moves \in ShortGames \cup LongGames :
          call = [fn |-> "calculateGameAccuracy", returned |-> FALSE,
                  moves |-> moves, color |-> "white",
                  result |-> EarlyReturn(FALSE)]

\* a first line of a search with Black or White to move: a score in
\* centipawns, or a mate in so many moves
Lines ==
    {Eval(score, "cp") : score \in (0 - MaxCentipawns)..MaxCentipawns}
    \cup {Eval(score, "mate") :
             score \in ((0 - MaxMate)..MaxMate) \ {0}}

\* a win percentage is about to be taken of an evaluation
WinPercentInit ==
    /\ AtRest
    /\ \E evaluation \in Lines :
          call = [fn |-> "centipawnsToWinPercent", returned |-> FALSE,
                  evaluation |-> evaluation, color |-> "white",
                  centipawns |-> 0, winPercent |-> 0]

\* a new task starts only when the previous one, its microtasks and the
\* listeners of its event are done
Idle == microtasks = <<>> /\ dispatch = <<>>

Commit(S) ==
    /\ batches' = S.b
    /\ pool' = S.p
    /\ timers' = S.t
    /\ microtasks' = S.m

Started == {b \in 1..MaxBatches : batches[b].phase # "none"}

\* a pool with one handle per move, whatever the hardware
PoolSizePerJob(hw, n) == n

\* Math.min(navigator.hardwareConcurrency || 8, queue.length)
PoolSize(hw, n) == Min(IF hw = 0 THEN DefaultMaxWorkers ELSE hw, n)

\* ------------------------------------------- average centipawn loss
\* move.centipawnLoss as the classifier leaves it on a move: a number of
\* centipawns, or nothing (the first move, which the classifier never
\* sees, and the moves it returns from without computing a loss)
CentipawnLosses == {Null, Number(0), Number(25), Number(120)}

\* the moves of one side, in game order
CplMoves ==
    UNION {[1..n -> [centipawnLoss : CentipawnLosses]] : n \in 1..MaxCplMoves}

\* (sum, move) => sum + move.centipawnLoss || 0, which JavaScript reads as
\* (sum + move.centipawnLoss) || 0: a sum that is NaN or 0 gives 0
CplStep(sum, move) ==
    IF move.centipawnLoss = Null THEN 0
    ELSE IF sum + move.centipawnLoss[1] = 0 THEN 0
         ELSE sum + move.centipawnLoss[1]

\* sideMoves.reduce(CplStep, 0) from move k on
RECURSIVE CplReduce(_, _, _)
CplReduce(sideMoves, k, sum) ==
    IF k > Len(sideMoves) THEN sum
    ELSE CplReduce(sideMoves, k + 1, CplStep(sum, sideMoves[k]))

\* whiteMoves.reduce(...) / whiteMoves.length
AverageCpl(sideMoves) ==
    Divide(CplReduce(sideMoves, 1, 0), Len(sideMoves))

\* analyzeGame is about to average the centipawn loss of one side
CplInit ==
    /\ AtRest
    /\ \E sideMoves \in CplMoves :
          call = [fn |-> "averageCpl", returned |-> FALSE,
                  sideMoves |-> sideMoves, cpl |-> Divide(0, 1)]

\* ------------------------------------------------------ MistakeLearner
\* what the evaluation queue hands to the callback of addToQueue: the
\* classification type of the evaluated move, and whether the move is the
\* first move of the best line of the position before it
EvaluatedMoves ==
    [classification : {"perfect", "excellent", "good", "mistake"},
     isTopMove : BOOLEAN]

\* handleEvaluationResult(evaluatedMove, ...): the handler it ends in
handleEvaluationResult(evaluatedMove) ==
    IF evaluatedMove.classification \in {"perfect", "brilliant", "great", "forced"}
    THEN "correct"
    ELSE IF evaluatedMove.classification = "excellent"
         THEN IF evaluatedMove.isTopMove THEN "correct" ELSE "alternative"
         ELSE IF evaluatedMove.classification = "good" THEN "alternative"
              ELSE "incorrect"

\* the closure of one evaluateUserMove call: stage "delayed" (the 300 ms
\* before the call), then "evaluating"; the 5 s timer and the queued
\* evaluation are pending or not; outcomes lists the handlers called
NewAttempt == [stage |-> "delayed", evaluationComplete |-> FALSE,
               timer |-> FALSE, queued |-> FALSE, outcomes |-> <<>>]

\* handleCorrectMove / handleAlternativeMove / handleIncorrectMove called
\* for attempt a
Outcome(c, a, outcome) ==
    [c EXCEPT !.attempts[a].outcomes = Append(@, outcome),
              !.correctMoveMade = IF outcome = "correct" THEN TRUE ELSE @,
              !.solvedCorrectly = IF outcome = "correct" THEN @ + 1 ELSE @]

\* learning mode is active on a mistake, no hint or solution was used
LearnInit ==
    /\ AtRest
    /\ call = [fn |-> "learning", attempts |-> <<>>,
               correctMoveMade |-> FALSE, solvedCorrectly |-> 0]

\* -------------------------------------------------------------- actions
\* MoveEvaluator.batchEvaluateMoves(game, history, progressCallback, settings)
\* with history.length = n, navigator.hardwareConcurrency = hw (0: not
\* reported) and a progress callback or null
BatchEvaluate(n, hw, cb) ==
    /\ Idle
    /\ Cardinality(Started) < batchLimit
    /\ n <= jobLimit
    /\ LET b == Cardinality(Started) + 1
           size == PoolSize(hw, n)
           fresh == [NoBatch EXCEPT
                       !.n = n, !.hw = hw, !.callback = cb,
                       !.queue = [j \in 1..n |-> j],
                       !.moves = [j \in 1..n |-> NoEntry],
                       !.jobs = [j \in 1..n |->
                                   [st |-> "queued", h |-> 0,
                                    via |-> "none", attempts |-> 0,
                                    dispatches |-> 0]]]
       IN IF size > 0 /\ Primary \notin available
          THEN \* new Engine(...) throws: the async function rejects
               /\ batches' = [batches EXCEPT ![b] =
                                 [fresh EXCEPT !.phase = "rejected"]]
               /\ UNCHANGED <<cancelRequested, workerPool, pool, timers,
                              microtasks>>
          ELSE /\ workerPool' = b
               /\ cancelRequested' = FALSE
               /\ LET S0 == [State EXCEPT
                               !.b[b] = [fresh EXCEPT !.phase = "running"],
                               !.p[b] = [h \in 1..size |-> NewEngine(Primary)]]
                  IN IF n = 0
                     THEN IF cb THEN Commit(Finish(S0, b))
                          ELSE Commit([S0 EXCEPT !.b[b].phase = "rejected"])
                     ELSE Commit(processBatch(S0, b, FALSE, available))
    /\ UNCHANGED <<available, dispatch, nErrors, nCancels, batchLimit, jobLimit,
                   hwLimit, call>>

\* MoveEvaluator.cancelActiveAnalysis()
CancelActiveAnalysis ==
    /\ Idle
    /\ nCancels < MaxCancels
    /\ nCancels' = nCancels + 1
    /\ cancelRequested' = TRUE
    /\ IF workerPool = 0 THEN Commit(MarkCancelled(State))
       ELSE Commit(CancelFrom(MarkCancelled(State), workerPool, 1))
    /\ UNCHANGED <<workerPool, available, dispatch, nErrors, batchLimit, jobLimit,
                   hwLimit, call>>

\* a running worker posts a line of its search: every message listener of
\* the Worker object is to be called with it
WorkerMessage(b, h, m) ==
    /\ Idle
    /\ b \in Started /\ h \in 1..Len(pool[b])
    /\ pool[b][h].worker = "live" /\ pool[b][h].going > 0
    /\ m = Bestmove \/ pool[b][h].emitted < MaxInfo
    /\ pool' = [pool EXCEPT
                  ![b][h].going = IF EndsSearch(m) THEN @ - 1 ELSE @,
                  ![b][h].emitted = IF m = Bestmove THEN @ ELSE @ + 1]
    /\ dispatch' = [x \in 1..Len(pool[b][h].listeners) |->
                      [kind |-> "message", b |-> b, h |-> h,
                       pid |-> pool[b][h].listeners[x].pid, m |-> m]]
    /\ UNCHANGED <<cancelRequested, workerPool, available, batches, timers,
                   microtasks, nErrors, nCancels, batchLimit, jobLimit,
                   hwLimit, call>>

\* a running worker raises an error event: the listener added with
\* addEventListener("error", ...) and the onerror handler are both to be
\* called, each of them handleError
WorkerError(b, h) ==
    /\ Idle
    /\ nErrors < MaxErrors
    /\ b \in Started /\ h \in 1..Len(pool[b])
    /\ pool[b][h].worker = "live"
    /\ nErrors' = nErrors + 1
    /\ dispatch' = [x \in 1..2 |-> [kind |-> "error", b |-> b, h |-> h,
                                    pid |-> NoPid, m |-> Bestmove]]
    /\ UNCHANGED <<cancelRequested, workerPool, available, batches, pool,
                   timers, microtasks, nCancels, batchLimit, jobLimit,
                   hwLimit, call>>

\* the next listener of the event in dispatch is called
RunListener ==
    /\ microtasks = <<>>
    /\ dispatch # <<>>
    /\ LET d == Head(dispatch)
       IN IF d.kind = "message"
          THEN Commit(messageHandler(State, d.b, d.h, d.pid, d.m))
          ELSE LET r == handleError(pool[d.b][d.h], available)
               IN Commit(Settle([State EXCEPT !.p[d.b][d.h] = r.e],
                                r.rejected, Failed("error")))
    /\ dispatch' = Tail(dispatch)
    /\ UNCHANGED <<cancelRequested, workerPool, available, nErrors, nCancels,
                   batchLimit, jobLimit,
                   hwLimit, call>>

\* timers of the same delay fire in the order they were armed; the 100 ms
\* poll of processBatch may overtake the safety timeouts
Fireable(k) ==
    \/ timers[k].kind = "poll"
    \/ \A x \in 1..(k - 1) : timers[x].kind = "poll"

TimerFires(k) ==
    /\ Idle
    /\ k \in 1..Len(timers)
    /\ Fireable(k)
    /\ LET t == timers[k]
           S0 == [State EXCEPT !.t = SubSeq(timers, 1, k - 1)
                                     \o SubSeq(timers, k + 1, Len(timers))]
       IN IF t.kind = "poll"
          THEN Commit(processBatch(S0, t.b, cancelRequested, available))
          ELSE Commit(safetyTimeout(S0, t.b, t.h, t.pid, available))
    /\ UNCHANGED <<cancelRequested, workerPool, available, dispatch, nErrors,
                   nCancels, batchLimit, jobLimit,
                   hwLimit, call>>

\* the oldest promise reaction runs
RunMicrotask ==
    /\ microtasks # <<>>
    /\ LET r == Head(microtasks)
           S0 == [State EXCEPT !.m = Tail(microtasks)]
       IN IF r.kind = "cont"
          THEN Commit(Continue(S0, r.b, r.j, r.res))
          ELSE Commit(processBatch(S0, r.b, cancelRequested, available))
    /\ UNCHANGED <<cancelRequested, workerPool, available, dispatch, nErrors,
                   nCancels, batchLimit, jobLimit,
                   hwLimit, call>>

Next ==
    \/ \E n \in 0..jobLimit, hw \in 0..hwLimit : BatchEvaluate(n, hw, TRUE)
    \/ CancelActiveAnalysis
    \/ \E b \in 1..MaxBatches, h \in 1..jobLimit, m \in BatchInfos \cup {Bestmove} :
          WorkerMessage(b, h, m)
    \/ \E b \in 1..MaxBatches, h \in 1..jobLimit : WorkerError(b, h)
    \/ RunListener
    \/ \E k \in 1..Len(timers) : TimerFires(k)
    \/ RunMicrotask

Spec == Init /\ [][Next]_vars

\* the same steps for a caller that leaves out the progress callback:
\* batchEvaluateMoves(game, history), progressCallback = null
DirectNext ==
    \/ \E n \in 0..jobLimit, hw \in 0..hwLimit : BatchEvaluate(n, hw, FALSE)
    \/ CancelActiveAnalysis
    \/ \E b \in 1..MaxBatches, h \in 1..jobLimit, m \in BatchInfos \cup {Bestmove} :
          WorkerMessage(b, h, m)
    \/ \E b \in 1..MaxBatches, h \in 1..jobLimit : WorkerError(b, h)
    \/ RunListener
    \/ \E k \in 1..Len(timers) : TimerFires(k)
    \/ RunMicrotask

DirectSpec == Init /\ [][DirectNext]_vars

\* messages.unshift(message) in the message handler
MessageArrives(m) ==
    /\ call.fn = "interpret" /\ ~call.returned
    /\ Len(call.messages) < MaxLog
    /\ call' = [call EXCEPT !.messages = <<m>> \o @]
    /\ UNCHANGED sched

\* const lines = this.interpret(messages, fen, targetDepth), for a position
\* with Black (fen includes " b ") or White to move
Interpret(black) ==
    /\ call.fn = "interpret" /\ ~call.returned
    /\ call' = [call EXCEPT !.black = black, !.returned = TRUE,
                            !.lines = interpret(call.messages, black)]
    /\ UNCHANGED sched

InterpretNext ==
    \/ \E m \in UciLines : MessageArrives(m)
    \/ \E black \in BOOLEAN : Interpret(black)

\* Engine.interpret on every message list of up to MaxLog messages
InterpretSpec == InterpretInit /\ [][InterpretNext]_vars

\* the continuation of analyzeGame runs to its return
AnalyzeGame(outcome) ==
    /\ call.fn = "analyzeGame" /\ ~call.returned
    /\ LET r == analyzeGame(call.moves, outcome)
       IN call' = [call EXCEPT !.returned = TRUE, !.threw = r.threw,
                               !.moves = r.moves, !.calls = r.calls,
                               !.white = r.white, !.black = r.black]
    /\ UNCHANGED sched

GameNext ==
    \E outcome \in [1..Len(call.moves) -> ClassifyOutcomes] :
        AnalyzeGame(outcome)

\* the labelling and the accuracy of analyzeGame on every array a batch of
\* up to MaxGameMoves moves can resolve with
GameSpec == GameInit /\ [][GameNext]_vars

\* this.centipawnsToWinPercent(cp) on the evaluation of a position, for
\* the colour being scored
WinPercent(color) ==
    /\ call.fn = "centipawnsToWinPercent" /\ ~call.returned
    /\ LET cp == PlayerCentipawns(call.evaluation, color)
       IN call' = [call EXCEPT !.returned = TRUE, !.color = color,
                               !.centipawns = cp,
                               !.winPercent = centipawnsToWinPercent(cp)]
    /\ UNCHANGED sched

WinPercentNext == \E color \in {"white", "black"} : WinPercent(color)

\* the win percentage of every score up to MaxCentipawns and of every mate
\* up to MaxMate, for either colour
WinPercentSpec == WinPercentInit /\ [][WinPercentNext]_vars

\* AccuracyCalculator.calculateGameAccuracy(moves, color)
CalculateGameAccuracy(color) ==
    /\ call.fn = "calculateGameAccuracy" /\ ~call.returned
    /\ call' = [call EXCEPT !.returned = TRUE, !.color = color,
                            !.result = calculateGameAccuracy(call.moves,
                                                             color)]
    /\ UNCHANGED sched

AccuracyNext == \E color \in {"white", "black"} : CalculateGameAccuracy(color)

\* calculateGameAccuracy on every game of up to MaxPlies moves and on the
\* long games with one turn of the tables
AccuracySpec == AccuracyInit /\ [][AccuracyNext]_vars

\* const whiteCpl = whiteMoves.reduce(...) / whiteMoves.length
ComputeCpl ==
    /\ call.fn = "averageCpl" /\ ~call.returned
    /\ call' = [call EXCEPT !.returned = TRUE,
                            !.cpl = AverageCpl(call.sideMoves)]
    /\ UNCHANGED sched

\* the average centipawn loss of every side of up to MaxCplMoves moves
CplSpec == CplInit /\ [][ComputeCpl]_vars

\* MistakeLearner.handleUserMove(moveObj) with a legal move of a position
\* that has no analysis yet: evaluateUserMove is set to run in 300 ms
HandleUserMove ==
    /\ call.fn = "learning"
    /\ ~call.correctMoveMade
    /\ Len(call.attempts) < MaxAttempts
    /\ call' = [call EXCEPT !.attempts = Append(@, NewAttempt)]
    /\ UNCHANGED sched

\* evaluateUserMove(...): the 5 s timeout is armed and the evaluation is
\* queued
EvaluateUserMove(a) ==
    /\ call.fn = "learning"
    /\ a \in 1..Len(call.attempts)
    /\ call.attempts[a].stage = "delayed"
    /\ call' = [call EXCEPT !.attempts[a].stage = "evaluating",
                            !.attempts[a].timer = TRUE,
                            !.attempts[a].queued = TRUE]
    /\ UNCHANGED sched

\* the callback of the 5 s setTimeout of attempt a
EvaluationTimeout(a) ==
    /\ call.fn = "learning"
    /\ a \in 1..Len(call.attempts)
    /\ call.attempts[a].timer
    /\ LET c == [call EXCEPT !.attempts[a].timer = FALSE]
       IN call' = IF ~call.attempts[a].evaluationComplete
                  THEN Outcome(c, a, "incorrect")
                  ELSE c
    /\ UNCHANGED sched

\* the evaluation queue calls the callback of attempt a with the evaluated
\* move: evaluationComplete = true, clearTimeout, handleEvaluationResult
EvaluationResult(a, evaluatedMove) ==
    /\ call.fn = "learning"
    /\ a \in 1..Len(call.attempts)
    /\ call.attempts[a].queued
    /\ call' = Outcome([call EXCEPT !.attempts[a].queued = FALSE,
                                    !.attempts[a].evaluationComplete = TRUE,
                                    !.attempts[a].timer = FALSE],
                       a, handleEvaluationResult(evaluatedMove))
    /\ UNCHANGED sched

LearnNext ==
    \/ HandleUserMove
    \/ \E a \in 1..MaxAttempts : EvaluateUserMove(a)
    \/ \E a \in 1..MaxAttempts : EvaluationTimeout(a)
    \/ \E a \in 1..MaxAttempts, evaluatedMove \in EvaluatedMoves :
          EvaluationResult(a, evaluatedMove)

\* learning mode on one mistake, the user trying up to MaxAttempts moves
LearnSpec == LearnInit /\ [][LearnNext]_vars

\* the same program in a browser whose pool is smaller than the move list
SchedSpec == SchedInit /\ [][Next]_vars

\* a page that starts one analysis after another, every engine script
\* loadable
RestartInit ==
    /\ Loaded
    /\ available = Profiles
    /\ batchLimit = MaxBatches
    /\ jobLimit = MaxJobs
    /\ hwLimit = MaxHW
    /\ call = NoCall

\* the steps of analyses whose searches answer with bestmove before any
\* timeout, without a worker error
RestartNext ==
    \/ \E n \in 0..jobLimit, hw \in 0..hwLimit : BatchEvaluate(n, hw, TRUE)
    \/ CancelActiveAnalysis
    \/ \E b \in 1..MaxBatches, h \in 1..jobLimit : WorkerMessage(b, h, Bestmove)
    \/ RunListener
    \/ RunMicrotask

RestartSpec == RestartInit /\ [][RestartNext]_vars

\* a holder of the pool calls abort() on one of its handles (the method
\* alone, without terminating the worker as cancelActiveAnalysis does); a
\* TypeError of abort() is the caller's and changes nothing
AbortHandle(b, h) ==
    /\ Idle
    /\ nCancels < MaxCancels
    /\ b \in Started /\ h \in 1..Len(pool[b])
    /\ nCancels' = nCancels + 1
    /\ LET r == abort(pool[b][h])
       IN Commit(Settle([State EXCEPT !.p[b][h] = r.e], r.resolved,
                        Ok(<<>>, "abort")))
    /\ UNCHANGED <<cancelRequested, workerPool, available, dispatch, nErrors,
                   batchLimit, jobLimit, hwLimit, call>>

\* one analysis, every engine script loadable
AbortInit ==
    /\ Loaded
    /\ available = Profiles
    /\ batchLimit = 1
    /\ jobLimit = MaxJobs
    /\ hwLimit = MaxHW
    /\ call = NoCall

\* the steps of an analysis whose handles are aborted one by one and used
\* again, with searches that answer before any timeout
AbortNext ==
    \/ \E n \in 0..jobLimit, hw \in 0..hwLimit : BatchEvaluate(n, hw, TRUE)
    \/ \E b \in 1..MaxBatches, h \in 1..jobLimit : AbortHandle(b, h)
    \/ \E b \in 1..MaxBatches, h \in 1..jobLimit, m \in BatchInfos \cup {Bestmove} :
          WorkerMessage(b, h, m)
    \/ RunListener
    \/ RunMicrotask

AbortSpec == AbortInit /\ [][AbortNext]_vars

\* the event loop runs every queued reaction and listener, and every armed
\* timer fires; nothing obliges a worker to answer
FairSpec ==
    /\ FairInit /\ [][Next]_vars
    /\ WF_vars(RunMicrotask)
    /\ WF_vars(RunListener)
    /\ WF_vars(\E k \in 1..Len(timers) : TimerFires(k))

\* ------------------------------------------------------------- claims
Handles(b) == 1..Len(pool[b])
Jobs(b) == 1..batches[b].n
Resolved(b) == batches[b].phase = "resolved"
Running(b) == batches[b].phase = "running"

\* C1: the result array has one slot per input move, and a populated slot i
\* holds the job built from input move i, whatever the completion order.
C1_ResultsByOriginalIndex ==
    \A b \in Started :
        /\ Len(batches[b].moves) = batches[b].n
        /\ \A i \in 1..Len(batches[b].moves) :
              batches[b].moves[i].set =>
                 /\ batches[b].moves[i].i = i
                 /\ batches[b].moves[i].move = HistoryMove(i)

\* the second move's evaluation has been stored while the first is pending
C1_Witness ==
    \E b \in Started :
        /\ batches[b].n >= 2
        /\ batches[b].moves[2].set
        /\ ~batches[b].moves[1].set
        /\ batches[b].jobs[1].st = "inflight"

\* C2: the promise returned by batchEvaluateMoves never rejects.
C2_BatchNeverRejects ==
    \A b \in 1..MaxBatches : batches[b].phase # "rejected"

\* C3: a batch cancelled while it runs resolves, and no handle of its pool
\* is busy once it has resolved.
C3_CancelSettlesIdle ==
    /\ \A b \in 1..MaxBatches :
          (Running(b) /\ cancelRequested) ~> Resolved(b)
    /\ [](\A b \in 1..MaxBatches :
             (Resolved(b) /\ cancelRequested) =>
                 \A h \in Handles(b) : ~pool[b][h].busy)

\* a batch cancelled during a search has resolved with no handle busy
C3_Witness ==
    \E b \in Started :
        /\ Resolved(b) /\ cancelRequested
        /\ \E i \in Jobs(b) : batches[b].jobs[i].via = "abort"
        /\ \A h \in Handles(b) : ~pool[b][h].busy

\* C4: a handle is busy as long as the evaluate() of a job assigned to it
\* is pending, and no handle has two assigned jobs that are not yet done.
C4_BusyWhileInFlight ==
    \A b \in Started :
        /\ \A j \in Jobs(b) :
              batches[b].jobs[j].st = "inflight" =>
                  pool[b][batches[b].jobs[j].h].busy
        /\ \A j1, j2 \in Jobs(b) :
              (/\ j1 # j2
               /\ batches[b].jobs[j1].st \in {"inflight", "settled"}
               /\ batches[b].jobs[j2].st \in {"inflight", "settled"})
              => batches[b].jobs[j1].h # batches[b].jobs[j2].h

\* a handle that finished one job is busy with the next one
C4_Witness ==
    \E b \in Started : \E j1, j2 \in Jobs(b) :
        /\ batches[b].jobs[j1].st = "done"
        /\ batches[b].jobs[j2].st = "inflight"
        /\ batches[b].jobs[j2].h = batches[b].jobs[j1].h
        /\ pool[b][batches[b].jobs[j2].h].busy
        /\ pool[b][batches[b].jobs[j2].h].currentResolve
              = Pid(b, j2, batches[b].jobs[j2].attempts - 1)

\* C5: the percents handed to the progress callback never decrease, and
\* the callback is not called once the batch promise has resolved.
C5_ProgressMonotone ==
    \A b \in Started :
        /\ \A x, y \in 1..Len(batches[b].progress) :
              x <= y => batches[b].progress[x] <= batches[b].progress[y]
        /\ Resolved(b) => Len(batches[b].progress) = batches[b].resolvedAt

\* a batch of two moves has resolved after reporting 50, 100 and 100
C5_Witness ==
    \E b \in Started :
        /\ Resolved(b)
        /\ batches[b].n = 2
        /\ batches[b].progress = <<50, 100, 100>>

AllPopulated(b) == \A i \in Jobs(b) : batches[b].moves[i].set

LastProgress(b) ==
    IF batches[b].progress = <<>> THEN 0
    ELSE batches[b].progress[Len(batches[b].progress)]

\* C6: unless it is cancelled, a running batch resolves with every index
\* populated and a last progress report of 100, also when searches never
\* produce a completion signal.
C6_UncancelledBatchCompletes ==
    \A b \in 1..MaxBatches :
        Running(b) ~>
            \/ cancelRequested
            \/ Resolved(b) /\ AllPopulated(b) /\ LastProgress(b) = 100

\* an uncancelled batch has resolved although the searches of an
\* evaluation never produced a completion signal
C6_Witness ==
    \E b \in Started :
        /\ Resolved(b) /\ ~cancelRequested /\ AllPopulated(b)
        /\ batches[b].n > 0
        /\ LastProgress(b) = 100
        /\ \E i \in Jobs(b) : batches[b].jobs[i].via = "timeout"

EvaluationFailed(b, j) ==
    /\ batches[b].jobs[j].st = "done"
    /\ batches[b].jobs[j].via \in {"error", "overflow", "timeout"}

C8_WorkersTerminatedAtResolve ==
    [][\A b \in 1..MaxBatches :
          (~Resolved(b) /\ Resolved(b)') =>
              \A h \in 1..Len(pool'[b]) : pool'[b][h].worker # "live"]_vars

\* a cancelled batch of two handles has resolved with both workers
\* terminated, one of them a fallback engine
C8_Witness ==
    \E b \in Started :
        /\ Resolved(b) /\ cancelRequested
        /\ Len(pool[b]) >= 2
        /\ \A h \in Handles(b) : pool[b][h].worker = "dead"
        /\ \E h \in Handles(b) : pool[b][h].engine = Lite16

\* handles of the static pool that the forEach of cancelActiveAnalysis
\* reaches: those before the first handle without a worker
Reached(b) ==
    {h \in Handles(b) : \A x \in 1..h : pool[b][x].worker # "null"}

\* C9: abort() on a handle with an evaluation in flight posts 'stop',
\* resolves the evaluation with an empty array, and leaves the handle not
\* busy and without pending resolver.
C9_AbortResolvesEmpty ==
    [][(nCancels' # nCancels /\ workerPool # 0) =>
          \A h \in Reached(workerPool) :
             LET b == workerPool
                 pid == pool[b][h].currentResolve
             IN pid # NoPid =>
                 /\ pool'[b][h].stops = 1
                 /\ batches'[b].jobs[pid[2]].st = "settled"
                 /\ batches'[b].jobs[pid[2]].via = "abort"
                 /\ \E x \in 1..Len(microtasks') :
                       microtasks'[x] =
                           Reaction("cont", b, pid[2], Ok(<<>>, "abort"))
                 /\ ~pool'[b][h].busy
                 /\ pool'[b][h].currentResolve = NoPid
                 /\ pool'[b][h].currentReject = NoPid]_vars

\* an aborted evaluation was stored with an empty lines array
C9_Witness ==
    \E b \in Started : \E j \in Jobs(b) :
        /\ batches[b].jobs[j].st = "done"
        /\ batches[b].jobs[j].via = "abort"
        /\ batches[b].moves[j].hasLines
        /\ batches[b].moves[j].lines = <<>>
        /\ pool[b][batches[b].jobs[j].h].stops = 1

\* C10 as claimed: an evaluation whose searches time out is attempted at
\* most twice, once on the first engine and once on a fallback engine.
C10_AtMostOneFallbackAttempt ==
    \A b \in Started : \A j \in Jobs(b) : batches[b].jobs[j].attempts <= 2

\* C10 amended: an evaluation whose searches time out is attempted at most
\* three times (fallen = 0, 1, 2); when the third search times out it
\* resolves with an empty result and no further attempt is made.
C10_AtMostTwoFallbackAttempts ==
    \A b \in Started : \A j \in Jobs(b) :
        /\ batches[b].jobs[j].attempts <= GiveUpFallen + 1
        /\ batches[b].jobs[j].via = "timeout" =>
              /\ batches[b].jobs[j].attempts = GiveUpFallen + 1
              /\ batches[b].jobs[j].st = "done" =>
                    /\ batches[b].moves[j].hasLines
                    /\ batches[b].moves[j].lines = <<>>
              /\ \A x \in 1..Len(timers) :
                    timers[x].pid[1] = b /\ timers[x].pid[2] = j
                        => timers[x].pid[3] <= GiveUpFallen

\* an evaluation was given up after three searches
C10_Witness ==
    \E b \in Started : \E j \in Jobs(b) :
        /\ batches[b].jobs[j].via = "timeout"
        /\ batches[b].jobs[j].attempts = 3
        /\ batches[b].jobs[j].st = "done"
        /\ batches[b].moves[j].lines = <<>>

\* C11: a second call of cancelActiveAnalysis changes nothing: wherever the
\* flag is already set, calling it again leaves the flag, the pool, every
\* handle, the timers and the pending reactions as they are.
C11_CancelIdempotent ==
    /\ [](cancelRequested /\ workerPool # 0 =>
             CancelFrom(State, workerPool, 1) = State)
    /\ [][nCancels' # nCancels =>
             /\ cancelRequested'
             /\ cancelRequested =>
                   UNCHANGED <<cancelRequested, workerPool, batches, pool,
                               timers, microtasks>>]_vars

\* cancelActiveAnalysis has just aborted a search of a running batch
C11_Witness ==
    \E b \in Started :
        /\ Running(b) /\ cancelRequested /\ nCancels > 0
        /\ \E x \in 1..Len(microtasks) :
              microtasks[x].kind = "cont" /\ microtasks[x].res.via = "abort"
        /\ \A h \in Handles(b) : pool[b][h].worker = "dead"

\* the batch waits with an idle worker and a job in the queue
WaitsForSibling(b) ==
    /\ Running(b) /\ ~cancelRequested /\ ~batches[b].stalled
    /\ Idle
    /\ batches[b].queue # <<>>
    /\ \E h \in Handles(b) : ~pool[b][h].busy /\ pool[b][h].worker = "live"

\* C12: a worker that finished its job while the queue is not empty does
\* not wait for the evaluations of the other workers: the program never
\* rests with an idle worker and a queued job.
C12_IdleWorkerNeverWaits ==
    \A b \in 1..MaxBatches : ~WaitsForSibling(b)

\* C13: jobs are dispatched in input order: a job that was assigned to a
\* worker has no queued job before it, and the queue holds the remaining
\* jobs in increasing order.
C13_DispatchIsFifo ==
    \A b \in Started :
        /\ \A i, j \in Jobs(b) :
              (i < j /\ batches[b].jobs[j].st # "queued")
                  => batches[b].jobs[i].st # "queued"
        /\ \A x, y \in 1..Len(batches[b].queue) :
              x < y => batches[b].queue[x] < batches[b].queue[y]

\* the first move is being evaluated while the second waits in the queue
C13_Witness ==
    \E b \in Started :
        /\ batches[b].n >= 2
        /\ batches[b].jobs[1].st = "inflight"
        /\ batches[b].jobs[2].st = "queued"
        /\ batches[b].queue = <<2>>

\* completions counted so far, from the result array
Written(b) == {i \in Jobs(b) : batches[b].moves[i].writes > 0}

\* C14: no job is dispatched twice and no index is written twice; the
\* counter equals the number of written indices; when a batch that was not
\* cancelled resolves, every job was dispatched once, every index written
\* once and the counter equals the number of jobs.
C14_EachJobOnceEachIndexOnce ==
    /\ [](\A b \in Started :
             /\ \A j \in Jobs(b) :
                   /\ batches[b].jobs[j].dispatches <= 1
                   /\ batches[b].moves[j].writes <= 1
             /\ batches[b].completedMoves = Cardinality(Written(b)))
    /\ [][\A b \in 1..MaxBatches :
             (~Resolved(b) /\ Resolved(b)' /\ ~cancelRequested') =>
                 /\ \A j \in 1..batches'[b].n :
                       /\ batches'[b].jobs[j].dispatches = 1
                       /\ batches'[b].moves[j].writes = 1
                 /\ batches'[b].completedMoves = batches'[b].n]_vars

\* a batch of two moves ran to completion on one handle
C14_Witness ==
    \E b \in Started :
        /\ Resolved(b) /\ ~cancelRequested
        /\ batches[b].n = 2 /\ Len(pool[b]) = 1
        /\ batches[b].completedMoves = 2
        /\ \A j \in Jobs(b) : batches[b].moves[j].writes = 1

\* C15: the pool of a batch has min(hardware parallelism or 8, number of
\* jobs) handles from the start of the batch to its end, and every job is
\* given to one of them.
C15_PoolSizeFixed ==
    \A b \in Started :
        batches[b].phase \in {"running", "resolved"} =>
            /\ Len(pool[b]) =
                  Min(IF batches[b].hw = 0 THEN 8 ELSE batches[b].hw,
                      batches[b].n)
            /\ \A j \in Jobs(b) :
                  batches[b].jobs[j].st # "queued" =>
                      batches[b].jobs[j].h \in 1..Len(pool[b])

\* with one core reported, the second move is evaluated on the only handle
C15_Witness ==
    \E b \in Started :
        /\ batches[b].hw = 1 /\ batches[b].n = 2
        /\ Len(pool[b]) = 1
        /\ batches[b].jobs[1].st = "done"
        /\ batches[b].jobs[2].st # "queued"
        /\ batches[b].jobs[2].h = 1

\* the error listener about to run finds an evaluation in flight
ErrorDuringSearch ==
    /\ dispatch # <<>>
    /\ Head(dispatch).kind = "error"
    /\ pool[Head(dispatch).b][Head(dispatch).h].currentReject # NoPid

\* what handleError leaves behind, but for the way the promise is settled
ErrorRecovered(b, h, j) ==
    /\ batches'[b].jobs[j].st = "settled"
    /\ batches'[b].jobs[j].via = "error"
    /\ pool'[b][h].currentResolve = NoPid
    /\ pool'[b][h].currentReject = NoPid
    /\ pool'[b][h].engine \in {Lite16, Basic11}
    /\ pool'[b][h].engine \in available => pool'[b][h].worker = "live"
    /\ ({Lite16, Basic11} \cap available = {}) => pool'[b][h].worker = "null"
    /\ batches'[b].phase = "running"

Outputs == SelectSeq(call.messages, LAMBDA m : m.kind = "info")

\* position in Outputs of the first well-formed message of rank id at
\* depth d, or 0
FirstOf(id, d) ==
    LET hits == {x \in 1..Len(Outputs) :
                    /\ Outputs[x].multipv = id /\ Outputs[x].depth = d
                    /\ Outputs[x].pv}
    IN IF hits = {} THEN 0
       ELSE CHOOSE x \in hits : \A y \in hits : x <= y

\* C17: every line interpret returns has the greatest depth any
\* search-progress message reports, no two lines have the same rank, and a
\* line is one the engine reported at that depth for its rank.
C17_OnlyDeepestLines ==
    (call.fn = "interpret" /\ call.returned) =>
        /\ \A x \in 1..Len(call.lines) :
              /\ \A y \in 1..Len(Outputs) :
                    Outputs[y].depth <= call.lines[x].depth
              /\ FirstOf(call.lines[x].id, call.lines[x].depth) # 0
        /\ \A x, y \in 1..Len(call.lines) :
              x # y => call.lines[x].id # call.lines[y].id

\* the shallower line of rank 1 was dropped for the deeper one
C17_Witness ==
    /\ call.fn = "interpret" /\ call.returned
    /\ Len(call.lines) = 1
    /\ call.lines[1].id = 1 /\ call.lines[1].depth = 2
    /\ \E x \in 1..Len(Outputs) :
          Outputs[x].multipv = 1 /\ Outputs[x].depth = 1 /\ Outputs[x].pv

\* C18: the score of a returned line is the negated engine score when
\* Black is to move and the engine score when White is to move, whether
\* the score is in centipawns or in moves to mate.
C18_ScoreInvertedForBlack ==
    (call.fn = "interpret" /\ call.returned) =>
        \A x \in 1..Len(call.lines) :
            LET at == FirstOf(call.lines[x].id, call.lines[x].depth)
            IN /\ at # 0
               /\ call.lines[x].type = Outputs[at].type
               /\ call.black =>
                     call.lines[x].score = 0 - Outputs[at].score
               /\ ~call.black =>
                     call.lines[x].score = Outputs[at].score

\* with Black to move a mate score of -2 was returned as 2
C18_Witness ==
    /\ call.fn = "interpret" /\ call.returned /\ call.black
    /\ \E x \in 1..Len(call.lines) :
          /\ call.lines[x].type = "mate"
          /\ call.lines[x].score = 2
          /\ Outputs[FirstOf(call.lines[x].id, call.lines[x].depth)].score
                = 0 - 2

\* the first move of a batch is stored before the batch resolves
FirstMoveStored ==
    \A b \in Started :
        (Resolved(b) /\ batches[b].n > 0) => batches[b].moves[1].set

Analysed == call.fn = "analyzeGame" /\ call.returned

\* C19: analyzeGame labels the first move Book/Theory with graph value 50
\* without calling the classifier on it, and calls the classifier once for
\* every later move, in increasing order, with the move before it as the
\* previous move.
C19_FirstMoveIsTheory ==
    Analysed =>
        /\ ~call.threw
        /\ call.moves[1].classification = THEORY
        /\ call.moves[1].graph = 50
        /\ Len(call.calls) = Len(call.moves) - 1
        /\ \A k \in 1..Len(call.calls) :
              /\ call.calls[k].move = k + 1
              /\ call.calls[k].previous = k

\* a game of three moves: the classifier was called for the second and the
\* third move and labelled the second one a blunder
C19_Witness ==
    /\ Analysed
    /\ Len(call.moves) = 3
    /\ call.calls = <<[move |-> 2, previous |-> 1],
                      [move |-> 3, previous |-> 2]>>
    /\ call.moves[1].classification = THEORY
    /\ call.moves[2].classification = BLUNDER

\* the stored moves of a side: White's are at the odd positions
SideOf(black) ==
    {i \in 1..Len(call.moves) : call.moves[i].set /\ BlackToMove(i) = black}

RECURSIVE LabelAccuracy(_)
LabelAccuracy(I) ==
    IF I = {} THEN 0
    ELSE LET i == CHOOSE x \in I : TRUE
         IN call.moves[i].classification.accuracy + LabelAccuracy(I \ {i})

\* C20: every move flagged isTopEngineMove adds 100 hundredths to the
\* accuracy sum of its side, whatever the accuracy of its label; the other
\* moves add the accuracy of their label.
C20_TopEngineMoveCountsFull ==
    Analysed =>
        \A black \in BOOLEAN :
            LET side == IF black THEN call.white ELSE call.black
                top == {i \in SideOf(black) : call.moves[i].isTopEngineMove}
            IN /\ side.length = Cardinality(SideOf(black))
               /\ side.sum = 100 * Cardinality(top)
                             + LabelAccuracy(SideOf(black) \ top)

\* White's second move matched the engine's top line and was labelled a
\* blunder: with the first move it gives White a sum of 200
C20_Witness ==
    /\ Analysed
    /\ Len(call.moves) = 3
    /\ call.moves[3].isTopEngineMove
    /\ call.moves[3].classification = BLUNDER
    /\ call.white.sum = 200
    /\ call.white.length = 2

\* C21: for every game the accuracy analyzeGame returns for a side is a
\* number from 0 to 1, and it is 0 for a side that made no move.
C21_AccuracyDefinedForBothSides ==
    (Analysed /\ ~call.threw) =>
        \A side \in {call.white, call.black} :
            /\ ~side.accuracy.nan
            /\ 0 <= side.accuracy.num
            /\ side.accuracy.num <= 100 * side.accuracy.den
            /\ (side.length = 0 => side.accuracy.num = 0)

\* C22: the accuracy analyzeGame returns for a side is the game accuracy
\* AccuracyCalculator.calculateBothPlayerAccuracies computes for that side
\* from the evaluations of the moves, divided by 100 (here to within a
\* hundredth of a percent a move).
C22_AccuracyIsWinPercentBased ==
    (Analysed /\ ~call.threw) =>
        LET both == calculateBothPlayerAccuracies(call.moves)
        IN \A c \in {"white", "black"} :
              LET side == IF c = "white" THEN call.white ELSE call.black
              IN /\ ~both[c].threw
                 /\ ~side.accuracy.nan
                 /\ Abs(100 * side.accuracy.num
                        - both[c].value * side.accuracy.den)
                       <= side.accuracy.den

WinPercentTaken == call.fn = "centipawnsToWinPercent" /\ call.returned

\* C23: centipawnsToWinPercent never decreases when the centipawn score
\* grows, the saturated values beyond 10000 and -10000 included; it maps 0
\* to 50 and every score to a value from 0 to 100.
C23_WinPercentMonotone ==
    WinPercentTaken =>
        /\ call.winPercent = centipawnsToWinPercent(call.centipawns)
        /\ 0 <= call.winPercent /\ call.winPercent <= 10000
        /\ (call.centipawns = 0 => call.winPercent = 5000)
        /\ call.winPercent <= centipawnsToWinPercent(call.centipawns + 1)
        /\ centipawnsToWinPercent(call.centipawns - 1) <= call.winPercent

\* the first score beyond the formula, taken for Black: -10001 gives 0
C23_Witness ==
    /\ WinPercentTaken
    /\ call.evaluation = Eval(10001, "cp")
    /\ call.color = "black"
    /\ call.centipawns = 0 - 10001
    /\ call.winPercent = 0

\* C26: a line of type mate is given the win percentage 100 when the mate
\* is for the side being scored and 0 when it is against it, by the
\* saturated branch and not by the formula.
C26_MateSaturates ==
    (WinPercentTaken /\ call.evaluation.type = "mate") =>
        /\ Abs(call.centipawns) > 10000
        /\ call.winPercent =
              IF (call.evaluation.score > 0) = (call.color = "white")
              THEN 10000 ELSE 0

\* Black is scored on a line in which Black mates in two
C26_Witness ==
    /\ WinPercentTaken
    /\ call.evaluation = Eval(0 - 2, "mate")
    /\ call.color = "black"
    /\ call.winPercent = 10000

Scored == call.fn = "calculateGameAccuracy" /\ call.returned

\* the moves of the side scored, and the accuracy computed for the k-th
SideCount == Len(call.result.evaluationPairs)
AccuracyAt(k) == call.result.weightedAccuracies[k][1]

\* C24: calculateGameAccuracy returns a number from 0 to 100 for every
\* move sequence and either colour.
C24_GameAccuracyBounded ==
    Scored =>
        /\ ~call.result.threw
        /\ 0 <= call.result.value
        /\ call.result.value <= 10000

\* White loses three pawns, Black gives them back, White allows mate: the
\* game accuracy of White lies strictly between 0 and 100
C24_Witness ==
    /\ Scored
    /\ call.color = "white"
    /\ call.moves = <<EvaluatedMove(<<Eval(0 - 300, "cp")>>),
                      EvaluatedMove(<<Eval(0, "cp")>>),
                      EvaluatedMove(<<Eval(0 - 1, "mate")>>)>>
    /\ call.result.value > 0
    /\ call.result.value < 10000

\* one move of the side took its win percentage from 100 to 0 and every
\* other move of the side lost nothing
OneSwing ==
    /\ SideCount >= 2
    /\ \E k \in 1..SideCount :
          /\ call.result.allWinPercents[k] = 10000
          /\ call.result.allWinPercents[k + 1] = 0
          /\ \A j \in 1..SideCount : j # k => AccuracyAt(j) = 10000

\* C25: in a game that is flawless but for one move with a swing of 100
\* points of win percentage, that move lowers the harmonic mean (which is
\* 100 without it) and lowers it more than it lowers the weighted mean.
C25_SwingLowersHarmonicMore ==
    (Scored /\ OneSwing) =>
        /\ call.result.harmonicMeanValue # Null
        /\ call.result.weightedMeanValue # Null
        /\ call.result.harmonicMeanValue[1] < 10000
        /\ call.result.harmonicMeanValue[1]
              < call.result.weightedMeanValue[1]

\* the win percentage of an evaluation for the colour scored
WinPercentOf(evaluation) ==
    centipawnsToWinPercent(PlayerCentipawns(evaluation, call.color))

\* C27: the accuracy of every move of the side scored is computed from the
\* win percentage of the position before that move and of the position
\* after that same move, both for the mover.
C27_AccuracyFromOwnBeforeAndAfter ==
    Scored =>
        \A k \in 1..SideCount :
            /\ k <= Len(call.result.weightedAccuracies)
            /\ AccuracyAt(k) =
                  calculateMoveAccuracy(
                      WinPercentOf(call.result.evaluationPairs[k].before),
                      WinPercentOf(call.result.evaluationPairs[k].after))

\* C28: with n >= 1 moves of the side, the window size is floor(n / 10)
\* kept within 2 and 8, every window has that many win percentages, and
\* the windows, those repeated at the start included, are n, so that every
\* move gets a weight and an entry of the weighted mean.
C28_OneWeightPerMove ==
    (Scored /\ SideCount >= 1) =>
        /\ call.result.windowSize = Clamp(2, 8, SideCount \div 10)
        /\ Len(call.result.windows) = SideCount
        /\ \A i \in 1..SideCount :
              Len(call.result.windows[i]) = call.result.windowSize
        /\ Len(call.result.weights) = SideCount
        /\ Len(call.result.weightedAccuracies) = SideCount

\* eighty moves of a side: windows of 8, of which the first is there seven
\* times
C28_Witness ==
    /\ Scored
    /\ SideCount = 80
    /\ call.result.windowSize = 8
    /\ Len(call.result.weights) = 80
    /\ \A i \in 1..7 :
          call.result.windows[i] = SubSeq(call.result.allWinPercents, 1, 8)
    /\ call.result.windows[8] = SubSeq(call.result.allWinPercents, 2, 9)

\* C29: calculateGameAccuracy returns the average of the weighted mean and
\* the harmonic mean of the accuracies; the other one when one of the two
\* is undefined; 0 when both are or when the side has no move.
C29_AverageWithFallbacks ==
    Scored =>
        LET accuracies == [k \in 1..Len(call.result.weightedAccuracies) |->
                              AccuracyAt(k)]
            w == call.result.weightedMeanValue
            h == call.result.harmonicMeanValue
        IN /\ SideCount >= 1 =>
                /\ w = weightedMean(call.result.weightedAccuracies)
                /\ h = harmonicMean(accuracies)
           /\ call.result.value =
                 IF SideCount = 0 \/ (w = Null /\ h = Null) THEN 0
                 ELSE IF w = Null THEN h[1]
                 ELSE IF h = Null THEN w[1]
                 ELSE (w[1] + h[1]) \div 2

\* Black had a forced mate and let White mate with its only move: no
\* accuracy is above 0, the harmonic mean is undefined and the weighted
\* mean, 0, is returned
C29_Witness ==
    /\ Scored
    /\ call.color = "black"
    /\ call.moves = <<EvaluatedMove(<<Eval(0 - 1, "mate")>>),
                      EvaluatedMove(<<Eval(1, "mate")>>)>>
    /\ call.result.harmonicMeanValue = Null
    /\ call.result.weightedMeanValue = Number(0)
    /\ call.result.value = 0

\* C30: a batch started without a progress callback, in a browser that
\* loads the engine, neither rejects nor stops short of resolving, whether
\* the move list is empty or not.
C30_NoCallbackStillResolves ==
    \A b \in Started :
        (~batches[b].callback /\ Primary \in available) =>
            /\ batches[b].phase # "rejected"
            /\ ~batches[b].stalled

\* C31: an evaluate() call on a handle that has no worker, when no engine
\* profile can be started, gives up after its substitution attempts and
\* resolves with an empty result: no evaluation is ended by the RangeError
\* of evaluate(fallen + 1) calls nested without bound.
C31_NullWorkerGivesUpEmpty ==
    \A b \in Started : \A j \in Jobs(b) :
        batches[b].jobs[j].via # "overflow"

\* C32: when the array of the batch has holes, analyzeGame returns without
\* a throw and every call of the classifier it made was given a stored
\* move and a stored previous move.
C32_HolesNeverReachClassifier ==
    (call.fn = "analyzeGame" /\ call.returned) =>
        /\ ~call.threw
        /\ \A x \in 1..Len(call.calls) :
              /\ call.moves[call.calls[x].move].set
              /\ call.moves[call.calls[x].previous].set

\* C33: a batch whose promise is pending when cancelActiveAnalysis() is
\* called dispatches no job afterwards, whatever batch is started next.
C33_CancelledBatchDispatchesNoMore ==
    [][\A b \in Started : \A j \in Jobs(b) :
          batches[b].cancelled =>
              batches'[b].jobs[j].dispatches = batches[b].jobs[j].dispatches]_vars

\* timers without the k-th
WithoutTimer(k) == SubSeq(timers, 1, k - 1) \o SubSeq(timers, k + 1, Len(timers))

\* the safety timeout k belongs to an evaluation that has settled
StaleTimeout(k) ==
    /\ timers[k].kind = "safety"
    /\ batches[timers[k].b].jobs[timers[k].pid[2]].st \in {"settled", "done"}

\* the step is the firing of timer k: it left the timer list, whatever its
\* callback armed behind the others
TimerFired(k) ==
    /\ Idle
    /\ Started' = Started
    /\ \A x \in 1..Len(timers') : timers'[x] # timers[k]
    /\ Len(timers') >= Len(timers) - 1
    /\ SubSeq(timers', 1, Len(timers) - 1) = WithoutTimer(k)

\* C34: a safety timeout that fires after the evaluation that armed it has
\* settled changes nothing: no promise is settled, no handle changes its
\* engine, its worker, its listeners or its in-flight evaluation, no search
\* is started and no timer is armed.
C34_StaleTimeoutDoesNothing ==
    [][\A k \in 1..Len(timers) :
          (StaleTimeout(k) /\ TimerFired(k)) =>
              /\ batches' = batches
              /\ pool' = pool
              /\ microtasks' = microtasks
              /\ timers' = WithoutTimer(k)]_vars

\* the timeout of the first evaluation of a handle has fired while the
\* handle runs its second evaluation, which is still in flight
C34_Witness ==
    \E b \in Started : \E j1, j2 \in Jobs(b) :
        /\ j1 # j2
        /\ batches[b].jobs[j1].h = batches[b].jobs[j2].h
        /\ batches[b].jobs[j1].st = "done"
        /\ batches[b].jobs[j1].via = "bestmove"
        /\ batches[b].jobs[j1].attempts = 1
        /\ \A x \in 1..Len(timers) : timers[x].pid # Pid(b, j1, 0)
        /\ batches[b].jobs[j2].st = "inflight"
        /\ batches[b].jobs[j2].attempts = 1
        /\ pool[b][batches[b].jobs[j2].h].currentResolve = Pid(b, j2, 0)
        /\ \E x \in 1..Len(timers) : timers[x].pid = Pid(b, j2, 0)

\* C35: an evaluate() that follows an abort() on the same handle is
\* resolved by the bestmove of its own search only: when a bestmove has
\* just resolved an evaluation, no search of the handle is still running
\* (searches end in the order they were started, so one that is still
\* running means the bestmove answered an earlier one).
C35_ResolvedByOwnBestmoveOnly ==
    \A b \in Started : \A j \in Jobs(b) :
        (batches[b].jobs[j].st = "settled" /\ batches[b].jobs[j].via = "bestmove")
            => pool[b][batches[b].jobs[j].h].going = 0

\* C36: a call of cancelActiveAnalysis() leaves no handle of the active
\* pool with a running worker or a pending evaluation: every handle that
\* had a worker has been aborted and its worker terminated, whatever
\* happened at the handles before it.
C36_CancelReachesEveryWorker ==
    [][(nCancels' = nCancels + 1 /\ workerPool # 0) =>
          \A h \in Handles(workerPool) :
              pool[workerPool][h].worker = "live" =>
                  /\ pool'[workerPool][h].worker = "dead"
                  /\ pool'[workerPool][h].currentResolve = NoPid
                  /\ ~pool'[workerPool][h].busy]_vars

\* C37: when the messages of the search hold a well-formed line (a rank, a
\* depth above 0 and a principal variation), the lines returned are not
\* empty, and they hold a line of rank 1 when a well-formed line of rank 1
\* was reported, whatever other messages the search sent.
C37_ReportedLineIsReturned ==
    (call.fn = "interpret" /\ call.returned) =>
        /\ (\E x \in 1..Len(Outputs) :
               /\ Outputs[x].multipv > 0 /\ Outputs[x].depth > 0
               /\ Outputs[x].pv)
              => call.lines # <<>>
        /\ (\E x \in 1..Len(Outputs) :
               /\ Outputs[x].multipv = 1 /\ Outputs[x].depth > 0
               /\ Outputs[x].pv)
              => \E k \in 1..Len(call.lines) : call.lines[k].id = 1

\* C38: the lines returned are in the order of their ranks, so that the
\* first of them is the line of rank 1 whenever that line is among them.
C38_LinesOrderedByRank ==
    (call.fn = "interpret" /\ call.returned) =>
        /\ \A x, y \in 1..Len(call.lines) :
              x < y => call.lines[x].id < call.lines[y].id
        /\ (\E k \in 1..Len(call.lines) : call.lines[k].id = 1)
              => call.lines[1].id = 1

\* the centipawnLoss of move k of the side, 0 when the move has none
LossOrZero(k) ==
    IF call.sideMoves[k].centipawnLoss = Null THEN 0
    ELSE call.sideMoves[k].centipawnLoss[1]

RECURSIVE SumOfLosses(_)
SumOfLosses(k) == IF k = 0 THEN 0 ELSE SumOfLosses(k - 1) + LossOrZero(k)

\* C39: the average centipawn loss of a side is the sum of the
\* centipawnLoss of all its moves, a move without one counting as 0,
\* divided by the number of its moves.
C39_AverageCplIsSumOverCount ==
    (call.fn = "averageCpl" /\ call.returned) =>
        call.cpl = Divide(SumOfLosses(Len(call.sideMoves)),
                          Len(call.sideMoves))

\* C40: every attempted move has at most one outcome: once the 5-second
\* timeout has called handleIncorrectMove for it, no handler is called for
\* it again, and a result that arrives later does not mark the mistake
\* solved.
C40_OneOutcomePerAttempt ==
    call.fn = "learning" =>
        \A a \in 1..Len(call.attempts) : Len(call.attempts[a].outcomes) <= 1

====
